---- MODULE Spec2Model ----
(***************************************************************************)
(* Model of the wallet transaction monitor (RPCTransactionMonitor): the    *)
(* per-wallet cursor map, the signature fetcher, the batch resolver, the   *)
(* classifier's outcome and the persistence gate of the Transaction        *)
(* collection. Asynchronous functions are cut at their await points: one   *)
(* action is the code that runs between two awaits.                        *)
(***************************************************************************)
EXTENDS Integers, Sequences, FiniteSets, TLC

(***************************************************************************)
(* Bounds of the model                                                     *)
(***************************************************************************)
\* longest chain (number of transactions the ledger provider ever reports)
MaxChain == 3
\* page size of the monitoring fetch (limit: 5 in the code), scaled
MonitorLimit == 3
\* page size of the full sync fetch (limit: 1000 in the code), scaled
FullSyncLimit == 2
\* chunk size of batchProcessTransactions (batchSize = 10 in the code), scaled
ResolveBatchSize == 3
\* chunk size of the full sync processing loop (processBatchSize = 25), scaled
ProcessBatchSize == 2
\* wallets processed concurrently by one tick (batchSize = 5), scaled
UserBatchSize == 2
\* how many monitoring ticks, syncAllUsers calls and addUser calls are explored
MaxTicks == 2
MaxSyncCalls == 1
MaxAddCalls == 1
\* the number of signatures of the history a backfill pages through
HistoryLen == 3
\* the number of addRequest calls on the rate limiter
MaxRequests == 4
\* the number of clock ticks the rate limiter is followed for
MaxClock == 8
\* the number of seconds the job and the loops of the monitor are followed for
MaxRestartSeconds == 13
\* the number of monitorTransactions calls explored
MaxLoops == 2

(***************************************************************************)
(* State                                                                   *)
(***************************************************************************)
VARIABLES
    chain,               \* the provider's transactions, oldest first; a signature is its index
    ledger,              \* the Transaction collection, in insertion order
    userLastSignatures,  \* the cursor map: user -> lastSignature, NoSig when absent
    isRunning,           \* RPCTransactionMonitor.isRunning
    mon,                 \* the monitorTransactions loop
    task,                \* the processUserTransactions / fullSyncUserTransactions calls in flight
    start,               \* the startMonitoring call
    sync,                \* the syncAllUsers call
    add,                 \* the addUser call
    calls,               \* how many ticks, syncAllUsers and addUser calls were begun; the wallets removed and not added since
    solPriceCache,       \* solPriceCache of the price job: <<>> for null, else one record
    coinvera,            \* process.env.COINVERA_APIKEY and what fetchTokenPrice answers
    clock,               \* Date.now()
    rateLimiter,         \* the fields of the RateLimiter instance
    workers,             \* the processQueue calls that passed the guard
    requests,            \* the addRequest calls and their promises
    dispatched,          \* the requests whose requestFn was called, in the order of the calls
    job,                 \* TransactionMonitorJob: its isRunning, and its call in flight
    loops                \* the monitorTransactions calls of the timed monitor that have not returned

\* the state of the monitor
monitorVars ==
    <<chain, ledger, userLastSignatures, isRunning, mon, task, start, sync, add, calls,
      job, loops>>

\* the state of the price sources
priceVars == <<solPriceCache, coinvera>>

\* the state of the rate limiter
limiterVars == <<clock, rateLimiter, workers, requests, dispatched>>

vars == <<monitorVars, priceVars, limiterVars>>

(***************************************************************************)
(* Wallets, signatures, chain transactions                                 *)
(***************************************************************************)
Users == {"u1", "u2", "u3"}
\* User.find({ status: 'active' }) in the order the database returns it
ActiveUsers == <<"u1", "u2", "u3">>
\* the user whose address addUser is called for
AddedUser == "u1"

\* "no signature": userLastSignatures has no entry / options.before is unset
NoSig == 0

SOL_MINT == "SOL"
SystemProgram == "11111111111111111111111111111111"

Min(a, b) == IF a < b THEN a ELSE b
Abs(x) == IF x < 0 THEN -x ELSE x

\* A chain transaction as getTransaction (jsonParsed) reports it, with the
\* err flag of its signature entry. accounts: the monitored wallets whose
\* address history holds the signature. err: the err field of the signature
\* entry. metaErr: meta.err. keys: transaction.message.accountKeys.
\* pre, post: meta.preBalances, meta.postBalances, in lamports.
\* preTok, postTok: meta.preTokenBalances, meta.postTokenBalances, amounts in
\* base units. instructions, inner: the programId of each instruction of
\* transaction.message.instructions and of meta.innerInstructions.
\* ops: the parsed instructions (top level, then inner).
Tok(owner, mint, amount, decimals) ==
    [owner |-> owner, mint |-> mint, amount |-> amount, decimals |-> decimals]

\* u1 sends 5000 lamports to an outside address and pays the fee
TxSol ==
    [accounts |-> {"u1"}, err |-> FALSE, metaErr |-> FALSE, keys |-> <<"u1", "ext">>,
     pre |-> <<20000, 0>>, post |-> <<10000, 5000>>, preTok |-> <<>>, postTok |-> <<>>,
     instructions |-> <<SystemProgram>>, inner |-> <<>>, ops |-> <<>>]
\* an outside address sends two tokens to u1
TxTwoMints ==
    [accounts |-> {"u1"}, err |-> FALSE, metaErr |-> FALSE, keys |-> <<"ext", "u1">>,
     pre |-> <<20000, 0>>, post |-> <<15000, 0>>,
     preTok |-> <<Tok("ext", "m1", 3, 0), Tok("ext", "m2", 4, 0)>>,
     postTok |-> <<Tok("u1", "m1", 3, 0), Tok("u1", "m2", 4, 0),
                   Tok("ext", "m1", 0, 0), Tok("ext", "m2", 0, 0)>>,
     instructions |-> <<SystemProgram>>, inner |-> <<>>, ops |-> <<>>]
\* u1 sends a token to u2
TxShared ==
    [accounts |-> {"u1", "u2"}, err |-> FALSE, metaErr |-> FALSE, keys |-> <<"u1", "u2">>,
     pre |-> <<20000, 0>>, post |-> <<15000, 0>>,
     preTok |-> <<Tok("u1", "m1", 3, 0)>>,
     postTok |-> <<Tok("u1", "m1", 0, 0), Tok("u2", "m1", 3, 0)>>,
     instructions |-> <<SystemProgram>>, inner |-> <<>>, ops |-> <<>>]
\* an outside address sends 7000 lamports to u2
TxOther ==
    [accounts |-> {"u2"}, err |-> FALSE, metaErr |-> FALSE, keys |-> <<"ext", "u2">>,
     pre |-> <<20000, 0>>, post |-> <<8000, 7000>>, preTok |-> <<>>, postTok |-> <<>>,
     instructions |-> <<SystemProgram>>, inner |-> <<>>, ops |-> <<>>]
\* u1 buys a token for 8000 lamports on a venue
TxSwap ==
    [accounts |-> {"u1"}, err |-> FALSE, metaErr |-> FALSE, keys |-> <<"u1", "pool">>,
     pre |-> <<20000, 50000>>, post |-> <<7000, 58000>>,
     preTok |-> <<Tok("pool", "m1", 9, 0)>>,
     postTok |-> <<Tok("u1", "m1", 9, 0), Tok("pool", "m1", 0, 0)>>,
     instructions |-> <<"JUP4Fb2cqiRUcaTHdrPC8h2gNsA2ETXiPDD33WcGuJB">>,
     inner |-> <<>>, ops |-> <<>>]
\* a transaction resolved without balance lists (a list that meta does not
\* hold reads as the empty list: `|| []`, `Math.min(...length)`)
TxNoChange ==
    [accounts |-> {"u1"}, err |-> FALSE, metaErr |-> FALSE, keys |-> <<"ext", "u1">>,
     pre |-> <<>>, post |-> <<>>, preTok |-> <<>>, postTok |-> <<>>,
     instructions |-> <<SystemProgram>>, inner |-> <<>>, ops |-> <<>>]
\* a failed transaction: the provider flags it on the signature entry, on the
\* resolved transaction, or on both
TxSigErr == [TxSol EXCEPT !.err = TRUE]


(***************************************************************************)
(* The Transaction collection (the event ledger)                           *)
(***************************************************************************)
\* Transaction.findOne({ signature })
FindOne(led, s) == \E i \in 1..Len(led) : led[i].signature = s

\* Transaction.findOne({ userId }, ..., { sort: { created_at: -1 } }): the
\* signature of the user's stored event with the latest block time, or NoSig
FindLastTx(led, u) ==
    LET mine == {i \in 1..Len(led) : led[i].userId = u}
    IN IF mine = {} THEN NoSig
       ELSE LET last == CHOOSE i \in mine : \A j \in mine : led[j].slot <= led[i].slot
            IN led[last].signature

\* a save that overwrites the stored document of the same signature
SaveUpsert(led, ev) ==
    IF FindOne(led, ev.signature)
    THEN [i \in 1..Len(led) |-> IF led[i].signature = ev.signature THEN ev ELSE led[i]]
    ELSE Append(led, ev)

\* saveFilteredTransaction as it would be with no unique index on signature
SaveNoUniqueIndex(led, ev) == Append(led, ev)

\* saveFilteredTransaction: transaction.save() is rejected by the unique index
\* on signature (the error is caught and logged), otherwise the document is
\* appended.
saveFilteredTransaction(led, ev) ==
    IF FindOne(led, ev.signature) THEN led ELSE Append(led, ev)

(***************************************************************************)
(* The ledger provider                                                     *)
(***************************************************************************)
RECURSIVE Descending(_)
\* the elements of a set of numbers, largest first
Descending(S) ==
    IF S = {} THEN <<>>
    ELSE LET m == CHOOSE x \in S : \A y \in S : y <= x
         IN <<m>> \o Descending(S \ {m})

\* a provider that answers with the newest signatures whatever `before` is
SignaturesIgnoringBefore(ch, u, limit, before) ==
    LET hist == Descending({s \in 1..Len(ch) : u \in ch[s].accounts})
    IN SubSeq(hist, 1, Min(limit, Len(hist)))

\* connection.getSignaturesForAddress(address, { limit, before }): the
\* signatures of the address, newest first, starting after (older than) the
\* signature `before` when it is given, at most `limit` of them
getSignaturesForAddress(ch, u, limit, before) ==
    LET hist == Descending({s \in 1..Len(ch) :
                              /\ u \in ch[s].accounts
                              /\ (before = NoSig \/ s < before)})
    IN SubSeq(hist, 1, Min(limit, Len(hist)))

RECURSIVE InsertBySlot(_, _, _)
\* insert signature s into a list sorted by slot, after the entries of equal slot
InsertBySlot(ch, sorted, s) ==
    IF sorted = <<>> THEN <<s>>
    ELSE IF ch[s].slot < ch[Head(sorted)].slot THEN <<s>> \o sorted
    ELSE <<Head(sorted)>> \o InsertBySlot(ch, Tail(sorted), s)

RECURSIVE SortBySlot(_, _)
\* validSignatures.sort((a, b) => (a.slot || 0) - (b.slot || 0)): stable, oldest first
SortBySlot(ch, sigs) ==
    IF sigs = <<>> THEN <<>>
    ELSE InsertBySlot(ch, SortBySlot(ch, SubSeq(sigs, 1, Len(sigs) - 1)), sigs[Len(sigs)])

(***************************************************************************)
(* The classifier                                                          *)
(***************************************************************************)
\* the least element of a non-empty set of numbers
First(S) == CHOOSE i \in S : \A j \in S : i <= j

\* Object.keys(DEX_PROGRAMS), in the order of the literal
DexNames ==
    <<"Pump.fun", "Raydium", "Jupiter", "Serum", "Orca", "Meteora", "Phoenix", "Lifinity">>

\* the venues and their program IDs
DEX_PROGRAMS ==
    [dexName \in {DexNames[i] : i \in 1..Len(DexNames)} |->
       CASE dexName = "Pump.fun" ->
              <<"6EF8rrecthR5Dkzon8Nwu78hRvfCKubJ14M5uBEwF6P",
                "pAMMBay6oceH9fJKBRHGP5D4bD4sWpmSwMn52FMfXEA",
                "CE5QSoHhzGGUE8MAfgkWWdDKzKwMDZjCFfvyMDEiKWdj",
                "pumpkn6GrJ5X1KTiRhPWToxrv7wbgx6x7QrePfqzgKA">>
         [] dexName = "Raydium" ->
              <<"675kPX9MHTjS2zt1qfr1NYHuzeLXfQM9H24wFSUt1Mp8",
                "EhYXQPv92L6EUrDBkLyMtq5e1yvfbGzT3H7qUaLDqhd8",
                "CPMMoo8L3F4NbTegBCKVNunggL7H1ZpdTHKxQB5qKP1C",
                "27haf8L6oxUeXrHrgEgsexjSY5hbVUWEmvv9Nyxg8vQv",
                "9W959DqEETiGZocYWCQPaJ6sBmUzgfxXfqGeTEdp3aQP">>
         [] dexName = "Jupiter" ->
              <<"JUP4Fb2cqiRUcaTHdrPC8h2gNsA2ETXiPDD33WcGuJB",
                "JUP6LkbZbjS1jKKwapdHNy74zcZ3tLUZoi5QNyVTaV4",
                "j1o2qRpjcyUwEvwtcfhEQefh773ZgjxcVRry7LDqg5X",
                "JupiterV6LkbZbjS1jKKwapdHNy74zcZ3tLUZoi5QNyVTaV4">>
         [] dexName = "Serum" ->
              <<"9xQeWvG816bUx9EPjHmaT23yvVM2ZWbrrpZb9PusVFin",
                "BJ3jrUzddfuSrZHXSCxMbUuqUUaG23jxjE6tLy6QeL2k",
                "EUqojwWA2rd19FZrzeBncJsm38Jm1hEhE3zsmX3bRc2o">>
         [] dexName = "Orca" ->
              <<"DjVE6JNiYqPL2QXyCUUh8rNjHrbz9hXHNYt99MQ59qw1",
                "9W959DqEETiGZocYWCQPaJ6sBmUzgfxXfqGeTEdp3aQP",
                "82yxjeMsvaURa4MbZZ7WZZHfobirZYkH1zF8fmeGtyaQ">>
         [] dexName = "Meteora" ->
              <<"Eo7WjKq67rjJQSZxS6z3YkapzY3eMj6Xy8X5EQVn5UaB",
                "LBUZKhRxPF3XUpBCjp4YzTKgLccjZhTSDM9YuVaPwxo">>
         [] dexName = "Phoenix" -> <<"PhoeNiXZ8ByJGLkxNfZRnkUfjvmuYqLR89jjFHGqdXY">>
         [] dexName = "Lifinity" -> <<"EewxydAPCCVuNEyrVN68PuSYdQ7wKn27V9Gjeoi8dy3S">>]

\* array.includes(x)
Includes(array, x) == \E i \in 1..Len(array) : array[i] = x

RECURSIVE AddAll(_, _)
\* a Set after add() of every element of a list: the elements in the order of
\* their first insertion
AddAll(set, list) ==
    IF list = <<>> THEN set
    ELSE AddAll(IF Includes(set, Head(list)) THEN set ELSE Append(set, Head(list)),
                Tail(list))

\* the program IDs detectDEX collects: of the instructions, then of the inner
\* instructions, then the account keys
allProgramIds(tx) == AddAll(AddAll(AddAll(<<>>, tx.instructions), tx.inner), tx.keys)

RECURSIVE detectedDEXes(_)
\* for each collected program ID, the venues whose list includes it
detectedDEXes(ids) ==
    IF ids = <<>> THEN <<>>
    ELSE SelectSeq(DexNames, LAMBDA dexName : Includes(DEX_PROGRAMS[dexName], Head(ids)))
         \o detectedDEXes(Tail(ids))

dexPriority ==
    <<"Jupiter", "Raydium", "Orca", "Serum", "Meteora", "Phoenix", "Lifinity", "Pump.fun">>

\* detectDEX answering with the venue detected first
DetectFirstDetected(tx) ==
    LET detected == detectedDEXes(allProgramIds(tx))
    IN IF Len(detected) > 0 THEN detected[1] ELSE "Unknown"

\* detectDEX(transaction)
detectDEX(tx) ==
    CHOOSE dex \in {
        LET found == {i \in 1..Len(dexPriority) : Includes(detected, dexPriority[i])}
        IN IF Len(detected) > 0
           THEN IF found # {} THEN dexPriority[First(found)] ELSE detected[1]
           ELSE "Unknown" :
        detected \in {detectedDEXes(allProgramIds(tx))} } : TRUE

\* (a local constant of the source is bound over a one-element set, so that it
\* is computed once)
\* parseTokenBalanceChanges(meta, walletAddress): one change per post entry
\* of the wallet (against the first pre entry of the same mint), then one per
\* pre entry of the wallet whose mint has no post entry; zero changes dropped
parseTokenBalanceChanges(tx, u) ==
    CHOOSE changes \in {
        LET PreAmount(mint) ==
                LET same == {i \in 1..Len(userPre) : userPre[i].mint = mint}
                IN IF same = {} THEN 0 ELSE userPre[First(same)].amount
            fromPost == [i \in 1..Len(userPost) |->
                           [mint |-> userPost[i].mint,
                            amount |-> userPost[i].amount - PreAmount(userPost[i].mint),
                            decimals |-> userPost[i].decimals]]
            gone == SelectSeq(userPre, LAMBDA b :
                                ~\E i \in 1..Len(userPost) : userPost[i].mint = b.mint)
            fromPre == [i \in 1..Len(gone) |->
                          [mint |-> gone[i].mint, amount |-> -gone[i].amount,
                           decimals |-> gone[i].decimals]]
        IN SelectSeq(fromPost \o fromPre, LAMBDA c : c.amount # 0) :
        userPost \in {SelectSeq(tx.postTok, LAMBDA b : b.owner = u)},
        userPre \in {SelectSeq(tx.preTok, LAMBDA b : b.owner = u)} } : TRUE

\* postBalances[i] - preBalances[i]
LamportChange(tx, i) == tx.post[i] - tx.pre[i]

\* parseSolBalanceChanges reading a balance that is not there as zero
SolChangesMissingAsZero(tx, u) ==
    LET At(list, i) == IF i <= Len(list) THEN list[i] ELSE 0
        n == IF Len(tx.pre) > Len(tx.post) THEN Len(tx.pre) ELSE Len(tx.post)
        big == {i \in 1..n : Abs(At(tx.post, i) - At(tx.pre, i)) > 1000}
    IN IF big = {} THEN 0 ELSE At(tx.post, First(big)) - At(tx.pre, First(big))

\* parseSolBalanceChanges(meta, walletAddress), in lamports. The first method
\* reads meta.transaction.message.accountKeys, which the metadata of a
\* resolved transaction does not hold, so the second method answers: the first
\* balance change above 0.000001 SOL, at whatever position it stands
parseSolBalanceChanges(tx, u) ==
    LET big == {i \in 1..Min(Len(tx.pre), Len(tx.post)) :
                  Abs(LamportChange(tx, i)) > 1000}
    IN IF big = {} THEN 0 ELSE LamportChange(tx, First(big))

\* getTransactionSigner(transaction): the first account key
getTransactionSigner(tx) == IF Len(tx.keys) > 0 THEN tx.keys[1] ELSE "Unknown"

\* extractTransferAddresses(transaction, walletAddress): the native balance
\* movement of the wallet first, then its token balance entries, then the
\* first two account keys
extractTransferAddresses(tx, u) ==
    LET n == Min(Len(tx.keys), Min(Len(tx.pre), Len(tx.post)))
        mine == IF Len(tx.keys) >= 2 THEN {i \in 1..n : tx.keys[i] = u} ELSE {}
        i == First(mine)
        change == LamportChange(tx, i)
        senders == {j \in 1..n : /\ j # i
                                  /\ LamportChange(tx, j) < 0
                                  /\ Abs(LamportChange(tx, j)) > Abs(change)}
        receivers == {j \in 1..n : j # i /\ LamportChange(tx, j) > 0}
        pres == {k \in 1..Len(tx.preTok) : tx.preTok[k].owner = u}
        posts == {k \in 1..Len(tx.postTok) : tx.postTok[k].owner = u}
        userPre == tx.preTok[First(pres)]
        userPost == tx.postTok[First(posts)]
        senderPre == {k \in 1..Len(tx.preTok) :
                        /\ tx.preTok[k].mint = userPost.mint
                        /\ tx.preTok[k].owner # u
                        /\ tx.preTok[k].amount > 0}
        receiverPost == {k \in 1..Len(tx.postTok) :
                           /\ tx.postTok[k].mint = userPre.mint
                           /\ tx.postTok[k].owner # u
                           /\ tx.postTok[k].amount > 0}
        fallback == IF Len(tx.keys) = 0 THEN [from |-> u, to |-> "Unknown"]
                    ELSE [from |-> tx.keys[1],
                          to |-> IF Len(tx.keys) >= 2 THEN tx.keys[2] ELSE "Unknown"]
        byToken ==
            IF posts # {} /\ pres = {}
            THEN IF senderPre # {}
                 THEN [from |-> tx.preTok[First(senderPre)].owner, to |-> u]
                 ELSE fallback
            ELSE IF pres # {} /\ (posts = {} \/ userPost.amount < userPre.amount)
            THEN IF receiverPost # {}
                 THEN [from |-> u, to |-> tx.postTok[First(receiverPost)].owner]
                 ELSE fallback
            ELSE fallback
    IN IF mine = {} THEN byToken
       ELSE IF change > 0
       THEN [from |-> IF senders # {} THEN tx.keys[First(senders)] ELSE tx.keys[1],
             to |-> u]
       ELSE IF change < 0
       THEN [from |-> u,
             to |-> IF receivers # {} THEN tx.keys[First(receivers)] ELSE tx.keys[2]]
       ELSE byToken

(***************************************************************************)
(* Prices                                                                  *)
(***************************************************************************)
\* parseFloat on the strings the price service may send: the number, or NaN
parseFloat(str) ==
    CASE str = "2" -> [nan |-> FALSE, number |-> 2]
      [] str = "0" -> [nan |-> FALSE, number |-> 0]
      [] OTHER -> [nan |-> TRUE, number |-> 0]

\* extractUsdPrice(response); a field the response does not hold is ""
getTokenPriceUSD(mint) ==
    LET extractUsdPrice(response) ==
            IF response.error # "" THEN 0
            ELSE IF response.priceInUsd # ""
            THEN (IF parseFloat(response.priceInUsd).nan THEN 0
                  ELSE parseFloat(response.priceInUsd).number)
            ELSE 0
    IN IF ~coinvera.apiKey THEN 0
       ELSE IF coinvera.rejected THEN 0
       ELSE extractUsdPrice(coinvera.response)

\* getSolPriceUSD()
getSolPriceUSD ==
    IF solPriceCache # <<>> /\ solPriceCache[1].solPriceUsd > 0
    THEN solPriceCache[1].solPriceUsd
    ELSE 100

\* the price sources the monitor runs with unless said otherwise: the native
\* coin at 3 USD in the cache, every token at 2 USD
PricesKnown ==
    /\ solPriceCache = << [solPriceUsd |-> 3, isValid |-> TRUE] >>
    /\ coinvera = [apiKey |-> TRUE, rejected |-> FALSE,
                   response |-> [error |-> "", priceInUsd |-> "2"]]

(***************************************************************************)
(* The rate limiter of the price requests, before its first request        *)
(***************************************************************************)
\* one second (the 1000 of processQueue), in clock ticks of 250 ms
Second == 4
\* new RateLimiter(2)
maxRequestsPerSecond == 2
\* Date.now() when the limiter is constructed: long after the time 0 its
\* fields start with
StartTime == Second

LimiterIdle ==
    /\ clock = StartTime
    /\ rateLimiter = [queue |-> <<>>, processing |-> FALSE, lastRequestTime |-> 0,
                      requestsInSecond |-> 0, secondStart |-> 0]
    \* a processQueue call: where it stands, its local `now`, when its timer
    \* is due, the request it awaits
    /\ workers = [k \in 1..MaxRequests |->
                    [pc |-> "none", now |-> 0, wakeAt |-> 0, request |-> 0]]
    \* an addRequest call: the state of its promise, and what the worker was
    \* doing when it was called
    /\ requests = [r \in 1..MaxRequests |-> [state |-> "none", during |-> ""]]
    /\ dispatched = <<>>

\* new TransactionMonitorJob(): isRunning = false, no call of start, stop or
\* restart in flight, no timer pending; no monitorTransactions call yet
JobIdle ==
    /\ job = [isRunning |-> FALSE, pc |-> "idle", wakeAt |-> 0]
    /\ loops = <<>>

\* one FilteredTransactionData; amount is in base units, decimals the exponent
\* of ten it is divided by; value is Math.abs(amount) * price, in the unit of
\* amount
Event(s, u, tx, type, dex, mint, amount, decimals, from, to, price) ==
    [signature |-> s, userId |-> u, slot |-> tx.slot, type |-> type, dex |-> dex,
     mint |-> mint, amount |-> amount, decimals |-> decimals, from |-> from, to |-> to,
     value |-> Abs(amount) * price]

\* Math.abs(solChange) > 0.0000001, in lamports
SolSignificant(lamports) == Abs(lamports) > 100

RECURSIVE BurnCloseScan(_, _, _, _)
\* the loop of detectBurnAndCloseOperations over all instructions
BurnCloseScan(ops, tx, s, u) ==
    LET \* what one instruction adds to the result
        BurnCloseOf(op) ==
            CHOOSE results \in {
                LET rel == {i \in 1..Len(tokenChanges) : tokenChanges[i].mint = op.mint}
                    dec == IF rel = {} THEN 0 ELSE tokenChanges[First(rel)].decimals
                    burn == IF op.type = "burn" /\ op.account # "" /\ op.mint # ""
                            THEN << Event(s, u, tx, "burn", "Token Program", op.mint,
                                          -Abs(op.amount), dec, u, SystemProgram,
                                          getTokenPriceUSD(op.mint)) >>
                            ELSE <<>>
                    close == IF op.type = "closeAccount" /\ op.account # "" /\ op.destination = u
                             THEN << Event(s, u, tx, "close", "Token Program",
                                           IF Len(tokenChanges) > 0 THEN tokenChanges[1].mint
                                           ELSE "Unknown",
                                           Abs(parseSolBalanceChanges(tx, u)), 9,
                                           SystemProgram, u, getSolPriceUSD) >>
                             ELSE <<>>
                IN burn \o close :
                tokenChanges \in {parseTokenBalanceChanges(tx, u)} } : TRUE
    IN IF ops = <<>> THEN <<>>
       ELSE BurnCloseOf(Head(ops)) \o BurnCloseScan(Tail(ops), tx, s, u)

detectBurnAndCloseOperations(tx, s, u) == BurnCloseScan(tx.ops, tx, s, u)

\* the swap branch: the first balance change with a negative amount, token
\* changes first, then the native coin
SwapEvents(tx, s, u) ==
    CHOOSE results \in {
        LET all == tokenChanges \o
                     (IF solChange # 0 /\ SolSignificant(solChange)
                      THEN << [mint |-> SOL_MINT, amount |-> solChange, decimals |-> 9] >>
                      ELSE <<>>)
            neg == {i \in 1..Len(all) : all[i].amount < 0}
        IN IF neg = {} THEN <<>>
           ELSE LET spent == all[First(neg)]
                IN << Event(s, u, tx, "swap", dex, spent.mint, -Abs(spent.amount),
                            spent.decimals, u,
                            \* (DEX_PROGRAMS as any)[dex]?.[0] || 'Unknown'
                            IF dex \in DOMAIN DEX_PROGRAMS THEN DEX_PROGRAMS[dex][1]
                            ELSE "Unknown",
                            IF spent.mint = SOL_MINT THEN getSolPriceUSD
                            ELSE getTokenPriceUSD(spent.mint)) >> :
        tokenChanges \in {parseTokenBalanceChanges(tx, u)},
        solChange \in {parseSolBalanceChanges(tx, u)},
        dex \in {detectDEX(tx)} } : TRUE

\* the send/receive branch with the native coin recorded next to the tokens
TransferEventsWithNative(tx, s, u) ==
    CHOOSE results \in {
        LET type == IF getTransactionSigner(tx) = u THEN "send" ELSE "receive"
            Signed(a) == IF type = "receive" THEN Abs(a) ELSE -Abs(a)
        IN [i \in 1..Len(tokenChanges) |->
               Event(s, u, tx, type, "Unknown", tokenChanges[i].mint,
                     Signed(tokenChanges[i].amount), tokenChanges[i].decimals,
                     ft.from, ft.to, getTokenPriceUSD(tokenChanges[i].mint))]
           \o (IF solChange # 0 /\ SolSignificant(solChange)
               THEN << Event(s, u, tx, type, "Unknown", SOL_MINT, Signed(solChange), 9,
                             ft.from, ft.to, getSolPriceUSD) >>
               ELSE <<>>) :
        tokenChanges \in {parseTokenBalanceChanges(tx, u)},
        solChange \in {parseSolBalanceChanges(tx, u)},
        ft \in {extractTransferAddresses(tx, u)} } : TRUE

\* the send/receive branch with type and sign taken from the balance change
TransferEventsByDelta(tx, s, u) ==
    CHOOSE results \in {
        LET Type(a) == IF a < 0 THEN "send" ELSE "receive"
        IN IF Len(tokenChanges) > 0
           THEN [i \in 1..Len(tokenChanges) |->
                   Event(s, u, tx, Type(tokenChanges[i].amount), "Unknown",
                         tokenChanges[i].mint, tokenChanges[i].amount,
                         tokenChanges[i].decimals, ft.from, ft.to,
                         getTokenPriceUSD(tokenChanges[i].mint))]
           ELSE IF solChange # 0 /\ SolSignificant(solChange)
           THEN << Event(s, u, tx, Type(solChange), "Unknown", SOL_MINT, solChange, 9,
                         ft.from, ft.to, getSolPriceUSD) >>
           ELSE <<>> :
        tokenChanges \in {parseTokenBalanceChanges(tx, u)},
        solChange \in {parseSolBalanceChanges(tx, u)},
        ft \in {extractTransferAddresses(tx, u)} } : TRUE

\* the send/receive branch: one event per token change, or one for the native
\* coin when there is no token change
TransferEvents(tx, s, u) ==
    CHOOSE results \in {
        LET type == IF getTransactionSigner(tx) = u THEN "send" ELSE "receive"
            Signed(a) == IF type = "receive" THEN Abs(a) ELSE -Abs(a)
        IN IF Len(tokenChanges) > 0
           THEN [i \in 1..Len(tokenChanges) |->
                   Event(s, u, tx, type, "Unknown", tokenChanges[i].mint,
                         Signed(tokenChanges[i].amount), tokenChanges[i].decimals,
                         ft.from, ft.to, getTokenPriceUSD(tokenChanges[i].mint))]
           ELSE IF solChange # 0 /\ SolSignificant(solChange)
           THEN << Event(s, u, tx, type, "Unknown", SOL_MINT, Signed(solChange), 9,
                         ft.from, ft.to, getSolPriceUSD) >>
           ELSE <<>> :
        tokenChanges \in {parseTokenBalanceChanges(tx, u)},
        solChange \in {parseSolBalanceChanges(tx, u)},
        ft \in {extractTransferAddresses(tx, u)} } : TRUE

\* the balance-change test of parseToFilteredTransactions
NoBalanceChange(tx, u) ==
    Len(parseTokenBalanceChanges(tx, u)) = 0 /\ parseSolBalanceChanges(tx, u) = 0

\* parseToFilteredTransactions without the meta.err test
ParseIgnoringMetaErr(tx, s, u) ==
    IF NoBalanceChange(tx, u) THEN <<>>
    ELSE CHOOSE results \in {
             IF Len(burnCloseResult) > 0 THEN burnCloseResult
             ELSE IF detectDEX(tx) # "Unknown" THEN SwapEvents(tx, s, u)
             ELSE TransferEvents(tx, s, u) :
             burnCloseResult \in {detectBurnAndCloseOperations(tx, s, u)} } : TRUE

\* parseToFilteredTransactions without the early return after the burn/close scan
ParseNoShortCircuit(tx, s, u) ==
    IF tx.metaErr THEN <<>>
    ELSE IF NoBalanceChange(tx, u) THEN <<>>
    ELSE detectBurnAndCloseOperations(tx, s, u) \o
         (IF detectDEX(tx) # "Unknown" THEN SwapEvents(tx, s, u) ELSE TransferEvents(tx, s, u))

\* parseToFilteredTransactions(transaction, signature, userId)
parseToFilteredTransactions(tx, s, u) ==
    IF tx.metaErr THEN <<>>
    ELSE IF NoBalanceChange(tx, u) THEN <<>>
    ELSE CHOOSE results \in {
             IF Len(burnCloseResult) > 0 THEN burnCloseResult
             ELSE IF detectDEX(tx) # "Unknown" THEN SwapEvents(tx, s, u)
             ELSE TransferEvents(tx, s, u) :
             burnCloseResult \in {detectBurnAndCloseOperations(tx, s, u)} } : TRUE



\* a tick's call is named by its user, a full sync by the call that awaits it
TaskIds == Users \cup {"start", "sync", "add"}

\* One call of processUserTransactions (mode "tick") or fullSyncUserTransactions
\* (mode "full"). before: options.before. lastKnown: userSig?.lastSignature.
\* sigs: signatures (tick) or allSignatures (full), newest first. fi: position
\* of the existence check in flight. valid: validSignatures. off, ci: the loop
\* indexes of the processing loop and of batchProcessTransactions. cb: the
\* callbacks of the last chunk, each with res (batchResults[index] holds a result),
\* its position pc and the number k of the save in flight. failed: which awaited
\* provider call threw.
NoTask ==
    [pc |-> "none", user |-> "", mode |-> "", before |-> NoSig, lastKnown |-> NoSig,
     sigs |-> <<>>, fi |-> 0, valid |-> <<>>, off |-> 0, ci |-> 0, cb |-> <<>>,
     failed |-> ""]

\* the synchronous head of either function, up to its first await
NewTask(u, mode, cursor) ==
    [NoTask EXCEPT !.pc = "fetch", !.user = u, !.mode = mode,
                   !.before = IF mode = "tick" THEN cursor ELSE NoSig,
                   !.lastKnown = cursor]

\* the callback of one signature of a chunk, up to its first await: it returns
\* when its entry of the answer holds no result, else it awaits findOne
StartCallback(res) ==
    [pc |-> IF res THEN "exists" ELSE "skipped", k |-> 0, res |-> res, transactions |-> <<>>]

\* what a step of a call leaves: the call's record and the signature it passed
\* to updateLastSignature (NoSig when it did not call it)
Ret(t, cur) == [t |-> t, cur |-> cur]


\* the closing update as it would be if it took the newest signature that
\* passed the filter instead of the newest one observed
FinishNewestValid(t) ==
    Ret([t EXCEPT !.pc = "done"], IF t.valid = <<>> THEN NoSig ELSE t.valid[Len(t.valid)])

\* the closing updateLastSignature(userId, walletAddress, signatures[0])
Finish(t) == Ret([t EXCEPT !.pc = "done"], t.sigs[1])

\* the signatures handed to batchProcessTransactions
Batch(t) ==
    IF t.mode = "tick" THEN t.valid
    ELSE SubSeq(t.valid, t.off + 1, Min(t.off + ProcessBatchSize, Len(t.valid)))

\* batch = signatures.slice(i, i + batchSize)
Chunk(t) == SubSeq(Batch(t), t.ci + 1, Min(t.ci + ResolveBatchSize, Len(Batch(t))))

\* the end of one round of the loop of batchProcessTransactions: the next chunk
\* is requested, or the function returns to its caller
AfterChunk(t) ==
    IF t.ci + ResolveBatchSize < Len(Batch(t))
    THEN Ret([t EXCEPT !.pc = "resolve", !.ci = @ + ResolveBatchSize, !.cb = <<>>], NoSig)
    ELSE IF t.mode = "tick" THEN Finish(t)
    ELSE Ret([t EXCEPT !.pc = "pause"], NoSig)

\* await Promise.all(processingPromises)
AfterCallbacks(t) ==
    IF \A j \in 1..Len(t.cb) : t.cb[j].pc \in {"skipped", "done"}
    THEN AfterChunk(t)
    ELSE Ret(t, NoSig)

\* if (sig.err) continue: the next position, from i on, of an entry with no err
SkipErr(ch, sigs, i) ==
    LET ok == {j \in i..Len(sigs) : ~ch[sigs[j]].err}
    IN IF ok = {} THEN Len(sigs) + 1 ELSE CHOOSE j \in ok : \A k \in ok : j <= k

\* the filter loop reaches position t.fi: the next existence check is awaited,
\* or the loop is over
AfterFilter(t, ch) ==
    IF t.fi <= Len(t.sigs) THEN Ret([t EXCEPT !.pc = "filter"], NoSig)
    ELSE IF t.valid = <<>> THEN Finish(t)
    ELSE Ret([t EXCEPT !.pc = "resolve", !.valid = SortBySlot(ch, @), !.off = 0, !.ci = 0],
             NoSig)

\* the call as it would end without its catch block: its promise rejects
CatchErrorRejects(t) == [t EXCEPT !.pc = "rejected", !.failed = "fetch"]

\* the catch block of processUserTransactions / fullSyncUserTransactions
CatchError(t) == [t EXCEPT !.pc = "done", !.failed = "fetch"]


(***************************************************************************)
(* Steps of a processUserTransactions / fullSyncUserTransactions call      *)
(***************************************************************************)
OtherProcs == UNCHANGED <<priceVars, limiterVars, job, loops, chain, isRunning, mon, start, sync, add, calls>>

\* the step of call id leaves r: its record and, possibly, a cursor update
Leave(id, r) ==
    \E x \in {r} :
        /\ task' = [task EXCEPT ![id] = x.t]
        /\ userLastSignatures' =
              IF x.cur = NoSig THEN userLastSignatures
              \* updateLastSignature(userId, walletAddress, signature)
              ELSE [userLastSignatures EXCEPT ![task[id].user] = x.cur]

\* getSignaturesForAddress of a tick throws
TickFetchThrows(id) ==
    /\ task[id].pc = "fetch" /\ task[id].mode = "tick"
    /\ Leave(id, Ret(CatchError(task[id]), NoSig))
    /\ UNCHANGED ledger
    /\ OtherProcs

\* getSignaturesForAddress of a tick answers: an empty page, or a page whose
\* filter loop starts
TickFetch(id) ==
    /\ task[id].pc = "fetch" /\ task[id].mode = "tick"
    /\ LET t == task[id]
           page == getSignaturesForAddress(chain, t.user, MonitorLimit, t.before)
       IN IF page = <<>>
          THEN Leave(id, Ret([t EXCEPT !.pc = "done"], NoSig))
          ELSE Leave(id, AfterFilter([t EXCEPT !.sigs = page,
                                                !.fi = SkipErr(chain, page, 1)], chain))
    /\ UNCHANGED ledger
    /\ OtherProcs

\* getSignaturesForAddress of a full sync throws
FullFetchThrows(id) ==
    /\ task[id].pc = "fetch" /\ task[id].mode = "full"
    /\ Leave(id, Ret(CatchError(task[id]), NoSig))
    /\ UNCHANGED ledger
    /\ OtherProcs

\* getSignaturesForAddress of a full sync answers (after the 300 ms delay, from
\* the second page on): one more page of the walk back to the last known signature
FullFetch(id) ==
    /\ task[id].pc = "fetch" /\ task[id].mode = "full"
    /\ \E t \in {task[id]} :
       \E page \in {getSignaturesForAddress(chain, t.user, FullSyncLimit, t.before)} :
         LET hit == {j \in 1..Len(page) : t.lastKnown # NoSig /\ page[j] = t.lastKnown}
             found == hit # {}
             new == IF found THEN SubSeq(page, 1, (CHOOSE j \in hit : TRUE) - 1) ELSE page
             stop == page = <<>> \/ found \/ Len(page) < FullSyncLimit
         IN \E all \in {t.sigs \o new} :
              IF ~stop
              THEN Leave(id, Ret([t EXCEPT !.sigs = all, !.before = page[Len(page)]], NoSig))
              ELSE IF all = <<>>
              THEN Leave(id, Ret([t EXCEPT !.pc = "done"], NoSig))
              ELSE \E t1 \in {[t EXCEPT !.sigs = all, !.fi = SkipErr(chain, all, 1)]} :
                     Leave(id, AfterFilter(t1, chain))
    /\ UNCHANGED ledger
    /\ OtherProcs

\* Transaction.findOne of the filter loop answers for signature sigs[fi]
Filter(id) ==
    /\ task[id].pc = "filter"
    /\ \E t \in {task[id]} :
         LET s == t.sigs[t.fi]
         IN \E t1 \in {[t EXCEPT !.valid = IF FindOne(ledger, s) THEN @ ELSE Append(@, s),
                                 !.fi = SkipErr(chain, t.sigs, t.fi + 1)]} :
              Leave(id, AfterFilter(t1, chain))
    /\ UNCHANGED ledger
    /\ OtherProcs

\* a chunk's callbacks as they would be if the first entry without a result
\* ended the chunk's processing
StartCallbacksUntilNull(t, ok) ==
    [t EXCEPT !.pc = "callbacks",
              !.cb = [j \in 1..Len(Chunk(t)) |->
                        [StartCallback(\A i \in 1..j : i \in ok) EXCEPT !.res = j \in ok]]]

\* batch.map(async (sig, index) => ...): every callback runs up to its first
\* await; ok holds the positions of the answer that hold a result
StartCallbacks(t, ok) ==
    [t EXCEPT !.pc = "callbacks",
              !.cb = [j \in 1..Len(Chunk(t)) |-> StartCallback(j \in ok)]]

\* the batched getTransaction request of a chunk throws (fetch or response.json)
ResolveThrows(id) ==
    /\ task[id].pc = "resolve"
    /\ Leave(id, AfterChunk([task[id] EXCEPT !.failed = "resolve", !.cb = <<>>]))
    /\ UNCHANGED ledger
    /\ OtherProcs

\* the batched request answers with an error or an empty result in some entries
ResolvePartial(id) ==
    /\ task[id].pc = "resolve"
    /\ \E ok \in SUBSET (1..Len(Chunk(task[id]))) :
         /\ ok # 1..Len(Chunk(task[id]))
         /\ \E t1 \in {StartCallbacks(task[id], ok)} : Leave(id, AfterCallbacks(t1))
    /\ UNCHANGED ledger
    /\ OtherProcs

\* the batched request answers with a result in every entry
Resolve(id) ==
    /\ task[id].pc = "resolve"
    /\ \E t1 \in {StartCallbacks(task[id], 1..Len(Chunk(task[id])))} :
         Leave(id, AfterCallbacks(t1))
    /\ UNCHANGED ledger
    /\ OtherProcs

\* callback j: Transaction.findOne answers
CbExists(id, j) ==
    /\ task[id].pc = "callbacks"
    /\ j \in 1..Len(task[id].cb)
    /\ task[id].cb[j].pc = "exists"
    /\ \E t \in {task[id]} :
         LET s == Chunk(t)[j]
         IN \E t1 \in {[t EXCEPT !.cb[j].pc = IF FindOne(ledger, s) THEN "done"
                                               ELSE "parse"]} :
              Leave(id, AfterCallbacks(t1))
    /\ UNCHANGED ledger
    /\ OtherProcs

\* callback j: parseToFilteredTransactions returns
CbParse(id, j) ==
    /\ task[id].pc = "callbacks"
    /\ j \in 1..Len(task[id].cb)
    /\ task[id].cb[j].pc = "parse"
    /\ \E t \in {task[id]} :
       \E s \in {Chunk(t)[j]} :
       \E evs \in {parseToFilteredTransactions(chain[s], s, t.user)} :
       \E t1 \in {[t EXCEPT !.cb[j].pc = IF evs = <<>> THEN "done" ELSE "save",
                             !.cb[j].k = IF evs = <<>> THEN 0 ELSE 1,
                             !.cb[j].transactions = evs]} :
         Leave(id, AfterCallbacks(t1))
    /\ UNCHANGED ledger
    /\ OtherProcs

\* callback j: the save of its k-th event answers
CbSave(id, j) ==
    /\ task[id].pc = "callbacks"
    /\ j \in 1..Len(task[id].cb)
    /\ task[id].cb[j].pc = "save"
    /\ \E t \in {task[id]} :
       \E evs \in {t.cb[j].transactions} :
       \E k \in {t.cb[j].k} :
         /\ ledger' = saveFilteredTransaction(ledger, evs[k])
         /\ \E t1 \in {[t EXCEPT !.cb[j].pc = IF k < Len(evs) THEN "save" ELSE "done",
                                  !.cb[j].k = IF k < Len(evs) THEN k + 1 ELSE 0]} :
              Leave(id, AfterCallbacks(t1))
    /\ OtherProcs

\* the pause after a processing batch of the full sync ends
Pause(id) ==
    /\ task[id].pc = "pause"
    /\ \E t \in {task[id]} :
          Leave(id, IF t.off + ProcessBatchSize < Len(t.valid)
                    THEN Ret([t EXCEPT !.pc = "resolve", !.off = @ + ProcessBatchSize,
                                       !.ci = 0], NoSig)
                    ELSE Finish(t))
    /\ UNCHANGED ledger
    /\ OtherProcs


(***************************************************************************)
(* The monitoring loop                                                     *)
(***************************************************************************)
\* userBatch = users.slice(i, i + batchSize)
\* every wallet that is left at once, without batches
UserBatchUnbounded(m) == SubSeq(m.users, m.i + 1, Len(m.users))

UserBatch(m) == SubSeq(m.users, m.i + 1, Min(m.i + UserBatchSize, Len(m.users)))

Members(seq) == {seq[j] : j \in 1..Len(seq)}

\* userBatch.map(user => this.processUserTransactions(user._id, user.wallet))
StartBatch(m) ==
    [id \in TaskIds |-> IF id \in Members(UserBatch(m))
                        THEN NewTask(id, "tick", userLastSignatures[id])
                        ELSE task[id]]

\* while (this.isRunning) after the sleep of a tick (3 s, or 10 s after an error);
\* the promises of the tick are gone
MonWake ==
    /\ mon.pc = "sleep"
    /\ mon' = [mon EXCEPT !.pc = IF isRunning THEN "find" ELSE "off"]
    /\ task' = [id \in TaskIds |-> IF id \in Users THEN NoTask ELSE task[id]]
    /\ UNCHANGED <<priceVars, limiterVars, job, loops, chain, ledger, userLastSignatures, isRunning, start, sync, add, calls>>

\* User.find answers: the tick starts with its first batch of wallets
BeginTick ==
    /\ mon.pc = "find"
    /\ LET m == [mon EXCEPT !.users = ActiveUsers, !.i = 0, !.totalProcessed = 0]
       IN IF Len(m.users) = 0
          THEN /\ mon' = [m EXCEPT !.pc = "sleep"]
               /\ task' = task
          ELSE /\ mon' = [m EXCEPT !.pc = "batch"]
               /\ task' = StartBatch(m)
    /\ UNCHANGED <<priceVars, limiterVars, job, loops, chain, ledger, userLastSignatures, isRunning, start, sync, add>>

\* a tick, as long as the number of ticks explored allows one more
MonFind ==
    /\ calls.ticks < MaxTicks
    /\ calls' = [calls EXCEPT !.ticks = @ + 1]
    /\ BeginTick

\* a tick, with no limit on their number
MonFindAgain ==
    /\ BeginTick
    /\ UNCHANGED calls

\* await Promise.all(promises) of a batch of wallets is over
MonBatchDone ==
    /\ mon.pc = "batch"
    /\ \A u \in Members(UserBatch(mon)) : task[u].pc \in {"done", "rejected"}
    /\ mon' = [mon EXCEPT
                 !.totalProcessed =
                     IF \E u \in Members(UserBatch(mon)) : task[u].pc = "rejected"
                     THEN @ ELSE @ + Len(UserBatch(mon)),
                 !.pc = IF mon.i + UserBatchSize < Len(mon.users) THEN "pause" ELSE "sleep"]
    /\ UNCHANGED <<priceVars, limiterVars, job, loops, chain, ledger, userLastSignatures, isRunning, task, start, sync, add, calls>>

\* the 100 ms pause between two batches of wallets ends
MonPause ==
    /\ mon.pc = "pause"
    /\ LET m == [mon EXCEPT !.i = @ + UserBatchSize, !.pc = "batch"]
       IN /\ mon' = m
          /\ task' = StartBatch(m)
    /\ UNCHANGED <<priceVars, limiterVars, job, loops, chain, ledger, userLastSignatures, isRunning, start, sync, add, calls>>

(***************************************************************************)
(* startMonitoring, syncAllUsers, addUser                                  *)
(***************************************************************************)
\* a start that leaves the cursor map as it finds it
LoadNothing(map, led, u) == map

\* one round of the loop of loadLastSignatures, for user u
loadLastSignatures(map, led, u) ==
    IF FindLastTx(led, u) # NoSig THEN [map EXCEPT ![u] = FindLastTx(led, u)] ELSE map

\* users.filter(user => !this.userLastSignatures.has(user._id))
usersNeedingFullSync(map, users) == SelectSeq(users, LAMBDA u : map[u] = NoSig)

\* startMonitoring is called while the monitor is not running
StartCall ==
    /\ ~isRunning
    /\ start.pc = "idle"
    /\ isRunning' = TRUE
    /\ start' = [pc |-> "load", users |-> ActiveUsers, i |-> 1]
    /\ UNCHANGED <<priceVars, limiterVars, job, loops, chain, ledger, userLastSignatures, mon, task, sync, add, calls>>

\* a loop that runs its first tick without a look at the flag
SpawnLoopUntested == [pc |-> "find", users |-> <<>>, i |-> 0, totalProcessed |-> 0]

\* the full syncs of startMonitoring are over: this.monitorTransactions()
SpawnLoop ==
    [pc |-> IF isRunning THEN "find" ELSE "off", users |-> <<>>, i |-> 0, totalProcessed |-> 0]

\* loadLastSignatures of startMonitoring: the findOne of user i answers; after
\* the last one the first full sync is called, or the loop is started
StartLoad ==
    /\ start.pc = "load"
    /\ LET u == start.users[start.i]
           map == loadLastSignatures(userLastSignatures, ledger, u)
           need == usersNeedingFullSync(map, start.users)
       IN /\ userLastSignatures' = map
          /\ IF start.i < Len(start.users)
             THEN /\ start' = [start EXCEPT !.i = @ + 1]
                  /\ UNCHANGED <<task, mon>>
             ELSE IF need = <<>>
             THEN /\ start' = [pc |-> "idle", users |-> <<>>, i |-> 0]
                  /\ mon' = SpawnLoop
                  /\ task' = task
             ELSE /\ start' = [pc |-> "sync", users |-> need, i |-> 1]
                  /\ task' = [task EXCEPT !["start"] = NewTask(need[1], "full", map[need[1]])]
                  /\ mon' = mon
    /\ UNCHANGED <<priceVars, limiterVars, job, loops, chain, ledger, isRunning, sync, add, calls>>

\* a full sync of startMonitoring and the 1 s delay after it are over
StartNext ==
    /\ start.pc = "sync"
    /\ task["start"].pc = "done"
    /\ IF start.i < Len(start.users)
       THEN /\ start' = [start EXCEPT !.i = @ + 1]
            /\ task' = [task EXCEPT !["start"] =
                          NewTask(start.users[start.i + 1], "full",
                                  userLastSignatures[start.users[start.i + 1]])]
            /\ mon' = mon
       ELSE /\ start' = [pc |-> "idle", users |-> <<>>, i |-> 0]
            /\ task' = [task EXCEPT !["start"] = NoTask]
            /\ mon' = SpawnLoop
    /\ UNCHANGED <<priceVars, limiterVars, job, loops, chain, ledger, userLastSignatures, isRunning, sync, add, calls>>

\* syncAllUsers is called
SyncCall ==
    /\ sync.pc = "idle"
    /\ calls.syncs < MaxSyncCalls
    /\ calls' = [calls EXCEPT !.syncs = @ + 1]
    /\ sync' = [pc |-> "load", users |-> ActiveUsers, i |-> 1]
    /\ UNCHANGED <<priceVars, limiterVars, job, loops, chain, ledger, userLastSignatures, isRunning, mon, task, start, add>>

\* loadLastSignatures of syncAllUsers: the findOne of user i answers; after the
\* last one the first full sync is called
SyncLoad ==
    /\ sync.pc = "load"
    /\ LET u == sync.users[sync.i]
           map == loadLastSignatures(userLastSignatures, ledger, u)
       IN /\ userLastSignatures' = map
          /\ IF sync.i < Len(sync.users)
             THEN /\ sync' = [sync EXCEPT !.i = @ + 1]
                  /\ task' = task
             ELSE /\ sync' = [sync EXCEPT !.pc = "sync", !.i = 1]
                  /\ task' = [task EXCEPT !["sync"] =
                                NewTask(sync.users[1], "full", map[sync.users[1]])]
    /\ UNCHANGED <<priceVars, limiterVars, job, loops, chain, ledger, isRunning, mon, start, add, calls>>

\* a full sync of syncAllUsers and the 2 s delay after it are over
SyncNext ==
    /\ sync.pc = "sync"
    /\ task["sync"].pc = "done"
    /\ IF sync.i < Len(sync.users)
       THEN /\ sync' = [sync EXCEPT !.i = @ + 1]
            /\ task' = [task EXCEPT !["sync"] =
                          NewTask(sync.users[sync.i + 1], "full",
                                  userLastSignatures[sync.users[sync.i + 1]])]
       ELSE /\ sync' = [pc |-> "idle", users |-> <<>>, i |-> 0]
            /\ task' = [task EXCEPT !["sync"] = NoTask]
    /\ UNCHANGED <<priceVars, limiterVars, job, loops, chain, ledger, userLastSignatures, isRunning, mon, start, add, calls>>

\* addUser(AddedUser, wallet) is called
AddCall ==
    /\ add.pc = "idle"
    /\ calls.adds < MaxAddCalls
    /\ calls' = [calls EXCEPT !.adds = @ + 1, !.removed = @ \ {AddedUser}]
    /\ add' = [pc |-> "load", user |-> AddedUser]
    /\ UNCHANGED <<priceVars, limiterVars, job, loops, chain, ledger, userLastSignatures, isRunning, mon, task, start, sync>>

\* addUser: the findOne of the last stored transaction answers, the full sync is called
AddLoad ==
    /\ add.pc = "load"
    /\ LET map == loadLastSignatures(userLastSignatures, ledger, add.user)
       IN /\ userLastSignatures' = map
          /\ task' = [task EXCEPT !["add"] = NewTask(add.user, "full", map[add.user])]
    /\ add' = [add EXCEPT !.pc = "sync"]
    /\ UNCHANGED <<priceVars, limiterVars, job, loops, chain, ledger, isRunning, mon, start, sync, calls>>

\* the full sync of addUser is over
AddDone ==
    /\ add.pc = "sync"
    /\ task["add"].pc = "done"
    /\ add' = [pc |-> "idle", user |-> ""]
    /\ task' = [task EXCEPT !["add"] = NoTask]
    /\ UNCHANGED <<priceVars, limiterVars, job, loops, chain, ledger, userLastSignatures, isRunning, mon, start, sync, calls>>

(***************************************************************************)
(* The chain grows                                                         *)
(***************************************************************************)
OnChain(shape, slot) ==
    [accounts |-> shape.accounts, err |-> shape.err, metaErr |-> shape.metaErr,
     keys |-> shape.keys, pre |-> shape.pre, post |-> shape.post,
     preTok |-> shape.preTok, postTok |-> shape.postTok, instructions |-> shape.instructions,
     inner |-> shape.inner,
     ops |-> shape.ops, slot |-> slot]

\* a transaction is confirmed while the monitor runs: a transfer, or a
\* failed one
NewTx ==
    /\ Len(chain) < MaxChain
    /\ \E shape \in {TxSol, [TxSol EXCEPT !.err = TRUE, !.metaErr = TRUE]} :
          chain' = Append(chain, OnChain(shape, Len(chain) + 1))
    /\ UNCHANGED <<priceVars, limiterVars, job, loops, ledger, userLastSignatures, isRunning, mon, task,
                 start, sync, add, calls>>

Init ==
    /\ PricesKnown
    /\ LimiterIdle
    /\ JobIdle
    \* the histories the monitor may find when it is constructed
    /\ chain \in
          { <<OnChain(TxSol, 1), OnChain(TxTwoMints, 2)>>,
            <<OnChain(TxSigErr, 1), OnChain(TxShared, 2)>>,
            <<OnChain([TxTwoMints EXCEPT !.metaErr = TRUE], 1), OnChain(TxOther, 2)>> }
    /\ ledger = <<>>
    /\ userLastSignatures = [u \in Users |-> NoSig]
    /\ isRunning = FALSE
    /\ mon = [pc |-> "off", users |-> <<>>, i |-> 0, totalProcessed |-> 0]
    /\ task = [id \in TaskIds |-> NoTask]
    /\ start = [pc |-> "idle", users |-> <<>>, i |-> 0]
    /\ sync = [pc |-> "idle", users |-> <<>>, i |-> 0]
    /\ add = [pc |-> "idle", user |-> ""]
    /\ calls = [ticks |-> 0, syncs |-> 0, adds |-> 0, removed |-> {}]

\* a step of a call in flight
TaskStep ==
    \/ \E id \in TaskIds : TickFetch(id)
    \/ \E id \in TaskIds : FullFetch(id)
    \/ \E id \in TaskIds : Filter(id)
    \/ \E id \in TaskIds : Resolve(id)
    \/ \E id \in TaskIds, j \in 1..ResolveBatchSize : CbExists(id, j)
    \/ \E id \in TaskIds, j \in 1..ResolveBatchSize : CbParse(id, j)
    \/ \E id \in TaskIds, j \in 1..ResolveBatchSize : CbSave(id, j)
    \/ \E id \in TaskIds : Pause(id)

\* a provider call of a call in flight fails
ProviderFailure ==
    \/ \E id \in TaskIds : TickFetchThrows(id)
    \/ \E id \in TaskIds : FullFetchThrows(id)
    \/ \E id \in TaskIds : ResolveThrows(id)
    \/ \E id \in TaskIds : ResolvePartial(id)

\* the monitor started once and ticking while the chain grows
Next ==
    \/ TaskStep
    \/ ProviderFailure
    \/ MonWake \/ MonFind \/ MonBatchDone \/ MonPause
    \/ StartCall \/ StartLoad \/ StartNext
    \/ NewTx

Spec == Init /\ [][Next]_vars

\* the monitor, syncAllUsers and addUser overlapping on a chain that stands still
NextAll ==
    \/ TaskStep
    \/ \E id \in TaskIds : FullFetchThrows(id)
    \/ MonWake \/ MonFind \/ MonBatchDone \/ MonPause
    \/ StartCall \/ StartLoad \/ StartNext
    \/ SyncCall \/ SyncLoad \/ SyncNext
    \/ AddCall \/ AddLoad \/ AddDone

InitAll ==
    /\ PricesKnown
    /\ LimiterIdle
    /\ JobIdle
    \* the histories explored with all three overlapping
    /\ chain \in { <<OnChain(TxTwoMints, 1)>>, <<OnChain(TxShared, 1)>> }
    /\ ledger = <<>>
    /\ userLastSignatures = [u \in Users |-> NoSig]
    /\ isRunning = FALSE
    /\ mon = [pc |-> "off", users |-> <<>>, i |-> 0, totalProcessed |-> 0]
    /\ task = [id \in TaskIds |-> NoTask]
    /\ start = [pc |-> "idle", users |-> <<>>, i |-> 0]
    /\ sync = [pc |-> "idle", users |-> <<>>, i |-> 0]
    /\ add = [pc |-> "idle", user |-> ""]
    /\ calls = [ticks |-> 0, syncs |-> 0, adds |-> 0, removed |-> {}]

SpecAll == InitAll /\ [][NextAll]_vars

\* the monitor ticking for ever with a provider that never fails: every tick
\* and every awaited answer eventually comes
NextFair ==
    \/ TaskStep
    \/ MonWake \/ MonFindAgain \/ MonBatchDone \/ MonPause
    \/ StartCall \/ StartLoad \/ StartNext
    \/ NewTx

FairSpec ==
    /\ Init /\ [][NextFair]_vars
    /\ \A id \in TaskIds :
         /\ WF_vars(TickFetch(id)) /\ WF_vars(FullFetch(id)) /\ WF_vars(Filter(id))
         /\ WF_vars(Resolve(id)) /\ WF_vars(Pause(id))
         /\ \A j \in 1..ResolveBatchSize :
              WF_vars(CbExists(id, j)) /\ WF_vars(CbParse(id, j)) /\ WF_vars(CbSave(id, j))
    /\ WF_vars(MonWake) /\ WF_vars(MonFindAgain) /\ WF_vars(MonBatchDone) /\ WF_vars(MonPause)
    /\ WF_vars(StartLoad) /\ WF_vars(StartNext)


(***************************************************************************)
(* addUser on a history of one transaction of any kind                     *)
(***************************************************************************)
\* the decimals of the mints on chain
MintDecimals == [m \in {"m1", "m2"} |-> IF m = "m1" THEN 2 ELSE 1]

\* the successful transactions of wallet u1 the provider may report
ClassifyShapes ==
    LET \* transaction.message.accountKeys: the wallet or an outside address
        \* pays the fee
        KeyOrders == { <<"u1", "ext">>, <<"ext", "u1">> }
        \* postBalances - preBalances by account key: the fee alone; the fee
        \* with 5000 lamports sent to the second key; the fee with 2000
        \* lamports of rent released to the second key; 7000 lamports of the
        \* second key released to the first, which pays the fee; 5500 lamports
        \* of the second key released to the first, which pays the fee
        LamportMoves ==
            { <<-5000, 0>>, <<-10000, 5000>>, <<-5000, 2000>>, <<2000, -7000>>,
              <<500, -5500>> }
        \* pre/postTokenBalances: none; u1 gives 2.00 of m1; u1 gets 2.00 of
        \* m1; u1 gives 2.00 of m1 and gets 3.0 of m2; u1 gives 2.00 of m1 out
        \* of the first of its two token accounts of m1; u1 gives 2.00 of m1
        \* to an owner that is not among the account keys
        TokenMoves ==
            { [pre |-> <<>>, post |-> <<>>],
              [pre |-> <<Tok("u1", "m1", 500, 2)>>,
               post |-> <<Tok("u1", "m1", 300, 2), Tok("ext", "m1", 200, 2)>>],
              [pre |-> <<Tok("ext", "m1", 200, 2)>>,
               post |-> <<Tok("u1", "m1", 200, 2), Tok("ext", "m1", 0, 2)>>],
              [pre |-> <<Tok("u1", "m1", 500, 2), Tok("u1", "m2", 10, 1)>>,
               post |-> <<Tok("u1", "m1", 300, 2), Tok("u1", "m2", 40, 1)>>],
              [pre |-> <<Tok("u1", "m1", 500, 2), Tok("u1", "m1", 100, 2)>>,
               post |-> <<Tok("u1", "m1", 300, 2), Tok("u1", "m1", 100, 2),
                          Tok("ext", "m1", 200, 2)>>],
              [pre |-> <<Tok("u1", "m1", 500, 2)>>,
               post |-> <<Tok("u1", "m1", 300, 2), Tok("ext2", "m1", 200, 2)>>] }
        \* a parsed burn instruction: parsed.info = {account, mint, amount}
        Burn(mint, amount) ==
            [type |-> "burn", account |-> "acc1", mint |-> mint,
             amount |-> amount, destination |-> ""]
        \* a parsed closeAccount instruction: parsed.info = {account, destination}
        Close(destination) ==
            [type |-> "closeAccount", account |-> "acc1", mint |-> "",
             amount |-> 0, destination |-> destination]
        \* the parsed instructions of a transaction
        OpLists ==
            { <<>>,
              <<Burn("m1", 200)>>,
              <<Burn("m1", 200), Burn("m1", 100)>>,
              <<Burn("m1", 0)>>,
              <<Close("u1")>>,
              <<Close("ext")>> }
        \* where program IDs stand in a transaction: the system program alone;
        \* Jupiter V6 called; Raydium AMM called, which calls Jupiter V4;
        \* Jupiter V4 called, which calls the Raydium AMM; the program that
        \* Raydium and Orca both list, among the account keys only; Pump.fun
        \* called, with Lifinity among the account keys
        Placements ==
            { [instructions |-> <<SystemProgram>>, inner |-> <<>>, keyed |-> <<>>],
              [instructions |-> <<"JUP6LkbZbjS1jKKwapdHNy74zcZ3tLUZoi5QNyVTaV4">>,
               inner |-> <<>>, keyed |-> <<>>],
              [instructions |-> <<"675kPX9MHTjS2zt1qfr1NYHuzeLXfQM9H24wFSUt1Mp8">>,
               inner |-> <<"JUP4Fb2cqiRUcaTHdrPC8h2gNsA2ETXiPDD33WcGuJB">>,
               keyed |-> <<>>],
              [instructions |-> <<"JUP4Fb2cqiRUcaTHdrPC8h2gNsA2ETXiPDD33WcGuJB">>,
               inner |-> <<"675kPX9MHTjS2zt1qfr1NYHuzeLXfQM9H24wFSUt1Mp8">>,
               keyed |-> <<>>],
              [instructions |-> <<SystemProgram>>, inner |-> <<>>,
               keyed |-> <<"9W959DqEETiGZocYWCQPaJ6sBmUzgfxXfqGeTEdp3aQP">>],
              [instructions |-> <<"6EF8rrecthR5Dkzon8Nwu78hRvfCKubJ14M5uBEwF6P">>,
               inner |-> <<>>,
               keyed |-> <<"EewxydAPCCVuNEyrVN68PuSYdQ7wKn27V9Gjeoi8dy3S">>] }
    IN  { [accounts |-> {"u1"}, err |-> FALSE, metaErr |-> FALSE,
           keys |-> k \o p.keyed,
           pre |-> <<20000, 20000>> \o [i \in 1..Len(p.keyed) |-> 1],
           post |-> <<20000 + l[1], 20000 + l[2]>> \o [i \in 1..Len(p.keyed) |-> 1],
           preTok |-> t.pre, postTok |-> t.post,
           instructions |-> p.instructions, inner |-> p.inner, ops |-> o] :
          k \in KeyOrders, l \in LamportMoves, t \in TokenMoves, p \in Placements,
          o \in OpLists }

InitClassify ==
    /\ PricesKnown
    /\ LimiterIdle
    /\ JobIdle
    /\ chain \in { <<OnChain(shape, 1)>> : shape \in ClassifyShapes }
    /\ ledger = <<>>
    /\ userLastSignatures = [u \in Users |-> NoSig]
    /\ isRunning = FALSE
    /\ mon = [pc |-> "off", users |-> <<>>, i |-> 0, totalProcessed |-> 0]
    /\ task = [id \in TaskIds |-> NoTask]
    /\ start = [pc |-> "idle", users |-> <<>>, i |-> 0]
    /\ sync = [pc |-> "idle", users |-> <<>>, i |-> 0]
    /\ add = [pc |-> "idle", user |-> ""]
    /\ calls = [ticks |-> 0, syncs |-> 0, adds |-> 0, removed |-> {}]

\* addUser and the steps of its full sync
NextClassify ==
    \/ AddCall \/ AddLoad \/ AddDone
    \/ \E id \in TaskIds : FullFetch(id)
    \/ \E id \in TaskIds : Filter(id)
    \/ \E id \in TaskIds : Resolve(id)
    \/ \E id \in TaskIds, j \in 1..ResolveBatchSize : CbExists(id, j)
    \/ \E id \in TaskIds, j \in 1..ResolveBatchSize : CbParse(id, j)
    \/ \E id \in TaskIds, j \in 1..ResolveBatchSize : CbSave(id, j)
    \/ \E id \in TaskIds : Pause(id)

SpecClassify == InitClassify /\ [][NextClassify]_vars


(***************************************************************************)
(* The pipeline of one signature, run alone                                *)
(***************************************************************************)
RECURSIVE SaveAll(_, _)
\* for (const tx of transactions) await this.saveFilteredTransaction(tx)
SaveAll(led, evs) ==
    IF evs = <<>> THEN led
    ELSE SaveAll(saveFilteredTransaction(led, Head(evs)), Tail(evs))

\* what one signature of a page goes through when nothing else runs in between
\* and its transaction is resolved: the filter loop, then its callback
RunPipeline(led, ch, u, s) ==
    IF ch[s].err \/ FindOne(led, s) THEN led
    ELSE SaveAll(led, parseToFilteredTransactions(ch[s], s, u))

Stored(led, s) == {i \in 1..Len(led) : led[i].signature = s}

(***************************************************************************)
(* addUser on a wallet with a history of several pages                     *)
(***************************************************************************)
RECURSIVE Histories(_)
\* the histories of n signatures: transfers of u1, failed ones, and
\* transactions of another wallet
Histories(n) ==
    IF n = 0 THEN { <<>> }
    ELSE { Append(h, OnChain(shape, n)) :
             h \in Histories(n - 1), shape \in {TxSol, TxSigErr, TxOther} }

RECURSIVE LedgerAfter(_, _, _)
\* the ledger an earlier run of the process left after the k oldest
\* signatures of the chain
LedgerAfter(ch, u, k) ==
    IF k = 0 THEN <<>>
    ELSE LET before == LedgerAfter(ch, u, k - 1)
         IN IF u \in ch[k].accounts THEN RunPipeline(before, ch, u, k) ELSE before

InitBackfill ==
    /\ PricesKnown
    /\ LimiterIdle
    /\ JobIdle
    /\ chain \in Histories(HistoryLen)
    /\ ledger \in { LedgerAfter(chain, AddedUser, k) : k \in 0..HistoryLen }
    /\ userLastSignatures = [u \in Users |-> NoSig]
    /\ isRunning = FALSE
    /\ mon = [pc |-> "off", users |-> <<>>, i |-> 0, totalProcessed |-> 0]
    /\ task = [id \in TaskIds |-> NoTask]
    /\ start = [pc |-> "idle", users |-> <<>>, i |-> 0]
    /\ sync = [pc |-> "idle", users |-> <<>>, i |-> 0]
    /\ add = [pc |-> "idle", user |-> ""]
    /\ calls = [ticks |-> 0, syncs |-> 0, adds |-> 0, removed |-> {}]

\* addUser and the steps of its full sync, with a provider that answers
NextBackfill ==
    \/ AddCall \/ AddLoad \/ AddDone
    \/ \E id \in TaskIds : FullFetch(id)
    \/ \E id \in TaskIds : Filter(id)
    \/ \E id \in TaskIds : Resolve(id)
    \/ \E id \in TaskIds, j \in 1..ResolveBatchSize : CbExists(id, j)
    \/ \E id \in TaskIds, j \in 1..ResolveBatchSize : CbParse(id, j)
    \/ \E id \in TaskIds, j \in 1..ResolveBatchSize : CbSave(id, j)
    \/ \E id \in TaskIds : Pause(id)

\* every awaited answer eventually comes
SpecBackfill ==
    /\ InitBackfill /\ [][NextBackfill]_vars
    /\ WF_vars(AddLoad) /\ WF_vars(AddDone)
    /\ \A id \in TaskIds :
         /\ WF_vars(FullFetch(id)) /\ WF_vars(Filter(id))
         /\ WF_vars(Resolve(id)) /\ WF_vars(Pause(id))
         /\ \A j \in 1..ResolveBatchSize :
              WF_vars(CbExists(id, j)) /\ WF_vars(CbParse(id, j)) /\ WF_vars(CbSave(id, j))


(***************************************************************************)
(* Every operation of the monitor                                          *)
(***************************************************************************)
\* stopMonitoring(): the loop ends when it next tests the flag
StopCall ==
    /\ isRunning
    /\ isRunning' = FALSE
    /\ UNCHANGED <<priceVars, limiterVars, job, loops, chain, ledger, userLastSignatures, mon, task, start, sync, add, calls>>

\* removeUser(userId): this.userLastSignatures.delete(userId)
RemoveUser ==
    /\ \E u \in Users :
          /\ userLastSignatures' = [userLastSignatures EXCEPT ![u] = NoSig]
          /\ calls' = [calls EXCEPT !.removed = @ \cup {u}]
    /\ UNCHANGED <<priceVars, limiterVars, job, loops, chain, ledger, isRunning, mon, task, start, sync, add>>

\* startMonitoring is called once no loop of an earlier start is left
StartAfterLoopExit ==
    /\ mon.pc = "off"
    /\ StartCall

InitOps ==
    /\ PricesKnown
    /\ LimiterIdle
    /\ JobIdle
    \* the history explored with every operation
    /\ chain = <<OnChain(TxTwoMints, 1)>>
    /\ ledger = <<>>
    /\ userLastSignatures = [u \in Users |-> NoSig]
    /\ isRunning = FALSE
    /\ mon = [pc |-> "off", users |-> <<>>, i |-> 0, totalProcessed |-> 0]
    /\ task = [id \in TaskIds |-> NoTask]
    /\ start = [pc |-> "idle", users |-> <<>>, i |-> 0]
    /\ sync = [pc |-> "idle", users |-> <<>>, i |-> 0]
    /\ add = [pc |-> "idle", user |-> ""]
    /\ calls = [ticks |-> 0, syncs |-> 0, adds |-> 0, removed |-> {}]

\* the monitor started, stopped and started again, with syncAllUsers, addUser
\* and removeUser called at any moment
NextOps ==
    \/ TaskStep
    \/ MonWake \/ MonFind \/ MonBatchDone \/ MonPause
    \/ StartAfterLoopExit \/ StartLoad \/ StartNext
    \/ StopCall
    \/ RemoveUser
    \/ SyncCall \/ SyncLoad \/ SyncNext
    \/ AddCall \/ AddLoad \/ AddDone

SpecOps == InitOps /\ [][NextOps]_vars


C3_NoEventForFailed ==
    \A i \in 1..Len(ledger) :
        ~chain[ledger[i].signature].err /\ ~chain[ledger[i].signature].metaErr

\* a tick met a page with an entry flagged err, and classifies a transaction
\* whose meta.err is set
C3_Witness ==
    \E id \in Users :
        /\ task[id].pc = "callbacks" /\ task[id].mode = "tick"
        /\ \E j \in 1..Len(task[id].sigs) : chain[task[id].sigs[j]].err
        /\ \E j \in 1..Len(task[id].cb) :
             task[id].cb[j].pc = "parse" /\ chain[Chunk(task[id])[j]].metaErr


\* a step ends the tick of user u
TickEnds(u) ==
    /\ task[u].mode = "tick"
    /\ task[u].pc \notin {"none", "done"}
    /\ task'[u].pc = "done"

\* C4: a tick never moves the cursor of its wallet to a signature of a lower
\* slot than the cursor it started from.
C4_CursorNeverRegresses ==
    [][\A u \in Users :
          (TickEnds(u) /\ userLastSignatures[u] # NoSig)
              => /\ userLastSignatures'[u] # NoSig
                 /\ chain[userLastSignatures'[u]].slot >= chain[userLastSignatures[u]].slot]_vars

\* transaction s of wallet u is successful, maps to events, and is newer than
\* the cursor the running monitor holds for u
Appeared(s, u) ==
    /\ s <= Len(chain)
    /\ u \in chain[s].accounts
    /\ ~chain[s].err /\ ~chain[s].metaErr
    /\ isRunning
    /\ userLastSignatures[u] # NoSig
    /\ chain[userLastSignatures[u]].slot < chain[s].slot
    /\ parseToFilteredTransactions(chain[s], s, u) # <<>>

\* C5: with ticks that keep running and provider calls that succeed, every
\* such transaction is eventually stored.
C5_NoEventLost ==
    \A s \in 1..MaxChain : \A u \in Users : Appeared(s, u) ~> FindOne(ledger, s)

\* C6: the events a call writes for the signatures of its page are inserted in
\* the order of their slots.
C6_ChronologicalInserts ==
    \A id \in TaskIds :
        task[id].pc # "none" =>
            \A i, j \in 1..Len(ledger) :
                (/\ i < j
                 /\ ledger[i].userId = task[id].user
                 /\ ledger[j].userId = task[id].user
                 /\ ledger[i].signature \in Members(task[id].valid)
                 /\ ledger[j].signature \in Members(task[id].valid))
                    => ledger[i].slot <= ledger[j].slot

\* C7: when a call ends after processing a non-empty page, the cursor of its
\* wallet is the first signature the provider returned, whatever became of the
\* signatures of the page.
C7_CursorIsNewestObserved ==
    [][\A id \in TaskIds :
          \* a step ends call id after it fetched and processed a page
          (/\ task[id].pc \notin {"none", "done"}
           /\ task'[id].pc = "done"
           /\ task'[id].sigs # <<>>
           /\ task'[id].failed # "fetch")
             => userLastSignatures'[task'[id].user] = task'[id].sigs[1]]_vars

\* a call ended on a page whose newest signature is a failed transaction and
\* whose resolution threw: nothing of the page is stored, the cursor is on it
C7_Witness ==
    \E id \in TaskIds :
        /\ task[id].pc = "done"
        /\ task[id].failed = "resolve"
        /\ task[id].sigs # <<>>
        /\ chain[task[id].sigs[1]].err
        /\ \A j \in 1..Len(task[id].sigs) : ~FindOne(ledger, task[id].sigs[j])
        /\ userLastSignatures[task[id].user] = task[id].sigs[1]

\* C8: a tick in which the page fetch or the resolution failed leaves the
\* cursor of its wallet where it was when the tick began.
C8_FailureKeepsCursor ==
    [][\A u \in Users :
          (TickEnds(u) /\ task'[u].failed # "")
              => userLastSignatures'[u] = task[u].before]_vars

\* C9: in a chunk whose answer lacks some results, exactly the callbacks of
\* the missing entries return at once; when the call ends, every signature
\* with a result that maps to events is stored, none without a result is, and
\* the cursor is on the newest signature of the page.
C9_PartialFailure ==
    \A id \in TaskIds :
        /\ \A j \in 1..Len(task[id].cb) :
             (task[id].cb[j].pc = "skipped") <=> ~task[id].cb[j].res
        /\ (task[id].pc = "done" /\ task[id].cb # <<>>) =>
             /\ \A j \in 1..Len(task[id].cb) :
                  LET s == Chunk(task[id])[j]
                  IN IF task[id].cb[j].res
                     THEN parseToFilteredTransactions(chain[s], s, task[id].user) # <<>>
                              => FindOne(ledger, s)
                     ELSE ~\E i \in 1..Len(ledger) :
                              ledger[i].signature = s /\ ledger[i].userId = task[id].user
             /\ userLastSignatures[task[id].user] = task[id].sigs[1]

\* a chunk of three signatures, one of them without a result: the two others
\* are stored and the cursor is past all three
C9_Witness ==
    \E id \in Users :
        /\ task[id].pc = "done"
        /\ Len(task[id].cb) = 3
        /\ Cardinality({j \in 1..3 : ~task[id].cb[j].res}) = 1
        /\ \A j \in 1..3 : task[id].cb[j].res =>
             \E i \in 1..Len(ledger) :
                 ledger[i].signature = Chunk(task[id])[j] /\ ledger[i].userId = id
        /\ userLastSignatures[id] = task[id].sigs[1]

\* C10: a provider error in the call of one wallet ends that call only: the
\* step changes neither the ledger nor the loop nor the call of another
\* wallet, and at the end of the tick every wallet's call has run to its end.
C10_FailureIsPerWallet ==
    /\ [](mon.pc = "sleep" =>
            /\ mon.totalProcessed = Len(mon.users)
            /\ \A u \in Members(mon.users) : task[u].pc = "done")
    /\ [][\A u \in Users :
            (task[u].failed = "" /\ task'[u].failed = "fetch")
                => /\ ledger' = ledger
                   /\ mon' = mon
                   /\ \A v \in Users \ {u} : task'[v] = task[v]]_vars

\* a tick is over in which the fetch of u1 failed: the event u1 had stored is
\* there, u2 of the same batch stored one, u3 of the next batch was processed
C10_Witness ==
    /\ mon.pc = "sleep"
    /\ task["u1"].failed = "fetch"
    /\ \E i \in 1..Len(ledger) : ledger[i].userId = "u1"
    /\ \E i \in 1..Len(ledger) :
         ledger[i].userId = "u2" /\ ledger[i].signature \in Members(task["u2"].valid)
    /\ task["u3"].pc = "done"


\* the signatures of the history of u strictly newer than s (all when s = NoSig)
NewerThan(ch, u, s) == {x \in 1..Len(ch) : u \in ch[x].accounts /\ (s = NoSig \/ x > s)}

\* the page a full sync in its paging loop is about to receive
NextPage(id) ==
    getSignaturesForAddress(chain, task[id].user, FullSyncLimit, task[id].before)

\* C11: the backfill of a wallet with a finite history terminates: its paging
\* loop goes on only after a full page without the last known signature, each
\* further page starts at an older signature, the loop is eventually left, and
\* what it collected is exactly the signatures strictly newer than the last
\* known one (the whole history when none is known), newest first, each once.
C11_BackfillTerminates ==
    /\ [][\A id \in TaskIds :
            \* the paging loop of call id goes on to one more page
            /\ (/\ task[id].pc = "fetch" /\ task[id].mode = "full"
                /\ task'[id].pc = "fetch") =>
                 /\ Len(NextPage(id)) = FullSyncLimit
                 /\ task[id].lastKnown \notin Members(NextPage(id))
                 /\ task[id].before = NoSig \/ task'[id].before < task[id].before
            \* the paging loop of call id ends with this step
            /\ (/\ task[id].pc = "fetch" /\ task[id].mode = "full"
                /\ task'[id].pc # "fetch") =>
                 /\ \/ NextPage(id) = <<>>
                    \/ Len(NextPage(id)) < FullSyncLimit
                    \/ task[id].lastKnown \in Members(NextPage(id))
                 /\ task'[id].sigs =
                      Descending(NewerThan(chain, task[id].user, task[id].lastKnown))]_vars
    /\ \A id \in TaskIds :
         (task[id].pc = "fetch" /\ task[id].mode = "full") ~> (task[id].pc # "fetch")

\* a backfill that needed more than one page to reach the last known signature
C11_Witness ==
    /\ task["add"].pc \notin {"none", "fetch"}
    /\ task["add"].lastKnown # NoSig
    /\ task["add"].before # NoSig
    /\ Len(task["add"].sigs) >= FullSyncLimit
    /\ task["add"].sigs =
         Descending(NewerThan(chain, task["add"].user, task["add"].lastKnown))


\* user u has a stored event
HasEvent(led, u) == \E i \in 1..Len(led) : led[i].userId = u

\* s is the signature of a stored event of u that no stored event of u is newer than
MostRecent(led, u, s) ==
    \E i \in 1..Len(led) :
        /\ led[i].userId = u /\ led[i].signature = s
        /\ \A j \in 1..Len(led) : led[j].userId = u => led[j].slot <= led[i].slot

C13_LedgerAppendOnly ==
    [][/\ Len(ledger') >= Len(ledger)
       /\ \A i \in 1..Len(ledger) : ledger'[i] = ledger[i]]_vars

\* an event of u1 is stored; syncAllUsers and addUser have returned; a tick has
\* run and the monitor, stopped since, is starting again: it has looked u1 up
\* and found its event; u1 has been removed since
C13_Witness ==
    /\ HasEvent(ledger, "u1")
    /\ calls.syncs > 0 /\ sync.pc = "idle"
    /\ calls.adds > 0 /\ add.pc = "idle"
    /\ calls.ticks > 0
    /\ start.pc = "sync" /\ "u1" \notin Members(start.users)
    /\ userLastSignatures["u1"] = NoSig


\* the events the classifier returns for signature s and wallet u
Emits(s, u) == parseToFilteredTransactions(chain[s], s, u)

\* the signatures on chain with the wallets they are classified for
Classified == {c \in (1..Len(chain)) \X Users : c[2] \in chain[c[1]].accounts}

\* a callback of a call in flight has received the events of signature s and
\* is saving them
Saving(s, u) ==
    \E id \in TaskIds : \E j \in 1..Len(task[id].cb) :
        /\ task[id].user = u
        /\ task[id].cb[j].pc = "save"
        /\ task[id].cb[j].transactions = Emits(s, u)
        /\ task[id].cb[j].transactions[1].signature = s

RECURSIVE Balance(_, _, _)
\* the amount a token balance list shows for wallet u and mint m
Balance(list, u, m) ==
    IF list = <<>> THEN 0
    ELSE (IF Head(list).owner = u /\ Head(list).mint = m THEN Head(list).amount ELSE 0)
         + Balance(Tail(list), u, m)

\* the token delta of wallet u for mint m
TokenDelta(tx, u, m) == Balance(tx.postTok, u, m) - Balance(tx.preTok, u, m)

\* the mints of the transaction
Mints(tx) == {tx.preTok[i].mint : i \in 1..Len(tx.preTok)}
                \cup {tx.postTok[i].mint : i \in 1..Len(tx.postTok)}

\* the mints for which wallet u has a nonzero token delta
DeltaMints(tx, u) == {m \in Mints(tx) : TokenDelta(tx, u, m) # 0}

\* the native delta of wallet u: the balance change at its account key
NativeDelta(tx, u) ==
    LET mine == {i \in 1..Min(Len(tx.keys), Min(Len(tx.pre), Len(tx.post))) : tx.keys[i] = u}
    IN IF mine = {} THEN 0 ELSE LamportChange(tx, First(mine))

\* a successful transaction with venue Unknown and no burn/close match
TransferPath(s, u) ==
    /\ ~chain[s].metaErr
    /\ detectDEX(chain[s]) = "Unknown"
    /\ detectBurnAndCloseOperations(chain[s], s, u) = <<>>

\* C14: on the transfer path the direction follows the signer, not the sign of
\* the wallet's delta: every event emitted is a send with a negative amount
\* when the wallet is the first account key, a receive with a positive amount
\* when it is not.
C14_DirectionBySigner ==
    \A c \in Classified :
        TransferPath(c[1], c[2]) =>
            \A k \in 1..Len(Emits(c[1], c[2])) :
                LET ev == Emits(c[1], c[2])[k]
                IN IF chain[c[1]].keys[1] = c[2]
                   THEN ev.type = "send" /\ ev.amount < 0
                   ELSE ev.type = "receive" /\ ev.amount > 0

\* a send is stored for a signer whose token balance went up, or a receive
\* for a wallet whose token balance went down
C14_Witness ==
    \E i \in 1..Len(ledger) :
        LET ev == ledger[i]
            tx == chain[ev.signature]
        IN /\ TransferPath(ev.signature, ev.userId)
           /\ \/ ev.type = "send" /\ ev.amount < 0
                 /\ TokenDelta(tx, ev.userId, ev.mint) > 0
              \/ ev.type = "receive" /\ ev.amount > 0
                 /\ TokenDelta(tx, ev.userId, ev.mint) < 0

\* C15: every stored event obeys the sign convention: a negative amount for
\* send, swap and burn, a positive amount for receive and close.
C15_SignConvention ==
    \A i \in 1..Len(ledger) :
        /\ ledger[i].type \in {"send", "swap", "burn"} => ledger[i].amount < 0
        /\ ledger[i].type \in {"receive", "close"} => ledger[i].amount > 0

C17_BurnCloseShortCircuit ==
    \A c \in Classified :
        detectBurnAndCloseOperations(chain[c[1]], c[1], c[2]) # <<>> =>
            \A k \in 1..Len(Emits(c[1], c[2])) :
                Emits(c[1], c[2])[k].type \in {"burn", "close"}

\* a callback is saving the events of the scan of a transaction on a known
\* venue in which the wallet has token deltas
C17_Witness ==
    \E c \in Classified :
        /\ Saving(c[1], c[2])
        /\ detectBurnAndCloseOperations(chain[c[1]], c[1], c[2]) # <<>>
        /\ detectDEX(chain[c[1]]) # "Unknown"
        /\ DeltaMints(chain[c[1]], c[2]) # {}


RECURSIVE Pow10(_)
\* Math.pow(10, n)
Pow10(n) == IF n = 0 THEN 1 ELSE 10 * Pow10(n - 1)

\* the parsed burn instructions of a transaction
BurnOps(tx) == {k \in 1..Len(tx.ops) : tx.ops[k].type = "burn"}

\* C18: a successful transaction with a parsed burn instruction of mint M, raw
\* amount A and decimals D yields an event, and what is stored for its
\* signature is one event of type burn, of mint M, with amount -(A / 10^D) for
\* one of its burn instructions: whatever the number of burn instructions, and
\* also when the token balance lists show no delta of the wallet for M.
C18_BurnEvent ==
    \A c \in Classified :
        LET tx == chain[c[1]]
        IN (~tx.err /\ ~tx.metaErr /\ BurnOps(tx) # {}) =>
              /\ Emits(c[1], c[2]) # <<>>
              /\ Cardinality(Stored(ledger, c[1])) <= 1
              /\ \A i \in Stored(ledger, c[1]) :
                    /\ ledger[i].type = "burn"
                    /\ \E k \in BurnOps(tx) :
                          /\ ledger[i].mint = tx.ops[k].mint
                          /\ ledger[i].amount * Pow10(MintDecimals[tx.ops[k].mint])
                               = -tx.ops[k].amount * Pow10(ledger[i].decimals)

\* the close events among the events emitted for signature s and wallet u
CloseEvents(s, u) == {k \in 1..Len(Emits(s, u)) : Emits(s, u)[k].type = "close"}

\* C19: a successful transaction with a parsed closeAccount instruction whose
\* destination is the wallet yields one close event, with the native amount
\* the wallet recovered as its positive amount, from the system program to the
\* wallet; with no such instruction it yields no close event.
C19_CloseEvent ==
    \A c \in Classified :
        LET tx == chain[c[1]]
            evs == Emits(c[1], c[2])
            \* the parsed closeAccount instructions of the transaction that
            \* release the rent to the wallet
            ClosesTo ==
                {k \in 1..Len(tx.ops) :
                   tx.ops[k].type = "closeAccount" /\ tx.ops[k].destination = c[2]}
        IN (~tx.err /\ ~tx.metaErr) =>
              IF ClosesTo # {}
              THEN /\ Cardinality(CloseEvents(c[1], c[2])) = 1
                   /\ \A k \in CloseEvents(c[1], c[2]) :
                         /\ evs[k].amount > 0
                         /\ evs[k].amount = NativeDelta(tx, c[2])
                         /\ evs[k].from = SystemProgram
                         /\ evs[k].to = c[2]
              ELSE CloseEvents(c[1], c[2]) = {}

\* the delta of wallet u for an asset: a mint or the native coin
AssetDelta(tx, u, m) == IF m = SOL_MINT THEN NativeDelta(tx, u) ELSE TokenDelta(tx, u, m)

\* the assets of which wallet u holds less after the transaction
SpentAssets(tx, u) == {m \in Mints(tx) \cup {SOL_MINT} : AssetDelta(tx, u, m) < 0}

\* C20: on the swap path at most one event is emitted: when the wallet has an
\* asset with a negative delta, one swap event for such an asset, with amount
\* -|delta|, from the wallet to the first program ID of the venue; when it has
\* none, no event.
C20_SwapEvent ==
    \A c \in Classified :
        \* a successful transaction on a known venue and no burn/close match
        (/\ ~chain[c[1]].metaErr
         /\ detectDEX(chain[c[1]]) # "Unknown"
         /\ detectBurnAndCloseOperations(chain[c[1]], c[1], c[2]) = <<>>) =>
            LET tx == chain[c[1]]
                evs == Emits(c[1], c[2])
            IN IF SpentAssets(tx, c[2]) # {}
               THEN /\ Len(evs) = 1
                    /\ evs[1].type = "swap"
                    /\ evs[1].mint \in SpentAssets(tx, c[2])
                    /\ evs[1].amount = -Abs(AssetDelta(tx, c[2], evs[1].mint))
                    /\ evs[1].from = c[2]
                    /\ evs[1].to = DEX_PROGRAMS[detectDEX(tx)][1]
               ELSE evs = <<>>

\* C21: on the transfer path a wallet that is the signer, has no token delta
\* and a nonzero native delta d gets exactly one event: a send of the native
\* coin with amount -|d| lamports at nine decimals, however small d is.
C21_NativeSend ==
    \A c \in Classified :
        LET tx == chain[c[1]]
            evs == Emits(c[1], c[2])
        IN (/\ TransferPath(c[1], c[2])
            /\ getTransactionSigner(tx) = c[2]
            /\ DeltaMints(tx, c[2]) = {}
            /\ NativeDelta(tx, c[2]) # 0) =>
              /\ Len(evs) = 1
              /\ evs[1].type = "send"
              /\ evs[1].mint = SOL_MINT
              /\ evs[1].decimals = 9
              /\ evs[1].amount = -Abs(NativeDelta(tx, c[2]))

\* C22: the venue detected is the first of Jupiter, Raydium, Orca, Serum,
\* Meteora, Phoenix, Lifinity, Pump.fun that lists one of the candidate
\* program IDs of the transaction (instructions, inner instructions, account
\* keys), whatever the order of the candidates, and Unknown exactly when none
\* does; a swap event carries that venue.
C22_VenueByPriority ==
    \A c \in Classified :
        LET tx == chain[c[1]]
            \* the candidate program IDs of the transaction, from whatever place
            Candidates ==
                {tx.instructions[i] : i \in 1..Len(tx.instructions)}
                  \cup {tx.inner[i] : i \in 1..Len(tx.inner)}
                  \cup {tx.keys[i] : i \in 1..Len(tx.keys)}
            \* the venues that list one of the candidates
            MatchedVenues ==
                {d \in DOMAIN DEX_PROGRAMS :
                   \E id \in Candidates : Includes(DEX_PROGRAMS[d], id)}
            order == <<"Jupiter", "Raydium", "Orca", "Serum", "Meteora", "Phoenix",
                       "Lifinity", "Pump.fun">>
            ranks == {i \in 1..Len(order) : order[i] \in MatchedVenues}
            venue == IF ranks = {} THEN "Unknown" ELSE order[First(ranks)]
        IN /\ detectDEX(tx) = venue
           /\ \A k \in 1..Len(Emits(c[1], c[2])) :
                 Emits(c[1], c[2])[k].type = "swap" => Emits(c[1], c[2])[k].dex = venue

\* a callback is saving a swap event on Jupiter for a transaction that calls
\* a Raydium program, which calls Jupiter
C22_Witness ==
    \E c \in Classified :
        /\ Saving(c[1], c[2])
        /\ Emits(c[1], c[2])[1].type = "swap"
        /\ Emits(c[1], c[2])[1].dex = "Jupiter"
        /\ Includes(DEX_PROGRAMS["Raydium"], chain[c[1]].instructions[1])
        /\ Includes(DEX_PROGRAMS["Jupiter"], chain[c[1]].inner[1])

\* C23: the native delta the classifier works with is the balance change at
\* the wallet's own position among the account keys, whichever position that
\* is, and never the change of another account.
C23_NativeDeltaOwnIndex ==
    \A c \in Classified :
        Includes(chain[c[1]].keys, c[2]) =>
            parseSolBalanceChanges(chain[c[1]], c[2]) = NativeDelta(chain[c[1]], c[2])

\* C24: the token-delta extraction returns one change per mint of which the
\* wallet owns an entry in the pre or post token balance list and holds a
\* different amount after than before (an absent side counting as zero), with
\* that difference as amount and the decimals of the mint; it returns nothing
\* for a mint with a zero delta or with entries of other owners only.
C24_TokenDeltas ==
    \A c \in Classified :
        LET tx == chain[c[1]]
            changes == parseTokenBalanceChanges(tx, c[2])
            \* the changes the extractor returns for mint m
            ChangesOf(m) == {k \in 1..Len(changes) : changes[k].mint = m}
        IN /\ \A m \in DeltaMints(tx, c[2]) :
                 /\ Cardinality(ChangesOf(m)) = 1
                 /\ \A k \in ChangesOf(m) :
                       /\ changes[k].amount = TokenDelta(tx, c[2], m)
                       /\ changes[k].decimals = MintDecimals[m]
           /\ \A k \in 1..Len(changes) : changes[k].mint \in DeltaMints(tx, c[2])

(***************************************************************************)
(* addUser on a page that holds a transaction resolved with metadata       *)
(* missing                                                                 *)
(***************************************************************************)
\* a page of two signatures, one of them of a transaction resolved with no
\* token balance lists and with no balance array at all, with no preBalances,
\* or with no postBalances
InitPartial ==
    /\ PricesKnown
    /\ LimiterIdle
    /\ JobIdle
    /\ LET TxNoPre == [TxNoChange EXCEPT !.post = <<5000, 20000>>]
           TxNoPost == [TxNoChange EXCEPT !.pre = <<0, 20000>>]
           PartialShapes == {TxNoChange, TxNoPre, TxNoPost}
       IN chain \in
             { <<OnChain(shape, 1), OnChain(other, 2)>> :
                 shape \in PartialShapes, other \in {TxSol, TxTwoMints} }
             \cup { <<OnChain(other, 1), OnChain(shape, 2)>> :
                       shape \in PartialShapes, other \in {TxSol, TxTwoMints} }
    /\ ledger = <<>>
    /\ userLastSignatures = [u \in Users |-> NoSig]
    /\ isRunning = FALSE
    /\ mon = [pc |-> "off", users |-> <<>>, i |-> 0, totalProcessed |-> 0]
    /\ task = [id \in TaskIds |-> NoTask]
    /\ start = [pc |-> "idle", users |-> <<>>, i |-> 0]
    /\ sync = [pc |-> "idle", users |-> <<>>, i |-> 0]
    /\ add = [pc |-> "idle", user |-> ""]
    /\ calls = [ticks |-> 0, syncs |-> 0, adds |-> 0, removed |-> {}]

SpecPartial == InitPartial /\ [][NextClassify]_vars

InitPrice ==
    \* solPriceCache: null before the first run of the price job, then the
    \* last price computed, flagged invalid after a failed run
    /\ solPriceCache \in
          { <<>>,
            << [solPriceUsd |-> 3, isValid |-> TRUE] >>,
            << [solPriceUsd |-> 3, isValid |-> FALSE] >> }
    \* what fetchTokenPrice answers: a price, and the ways of having none
    /\ coinvera \in
          [apiKey : BOOLEAN, rejected : BOOLEAN,
           response : { [error |-> "", priceInUsd |-> "2"],
                        [error |-> "HTTP error! status: 500", priceInUsd |-> ""],
                        [error |-> "", priceInUsd |-> ""],
                        [error |-> "", priceInUsd |-> "n/a"],
                        [error |-> "", priceInUsd |-> "0"] }]
    /\ LimiterIdle
    /\ JobIdle
    /\ LET \* u1 sells a token for 8000 lamports on a venue
           TxSell ==
               [TxSwap EXCEPT !.pre = <<20000, 50000>>, !.post = <<23000, 42000>>,
                              !.preTok = <<Tok("u1", "m1", 9, 0)>>,
                              !.postTok = <<Tok("u1", "m1", 0, 0),
                                            Tok("pool", "m1", 9, 0)>>]
           \* u1 burns 2 units of a token
           TxBurn ==
               [TxSol EXCEPT !.keys = <<"u1", "acc1">>, !.pre = <<20000, 2000>>,
                             !.post = <<15000, 2000>>,
                             !.preTok = <<Tok("u1", "m1", 5, 0)>>,
                             !.postTok = <<Tok("u1", "m1", 3, 0)>>,
                             !.ops = << [type |-> "burn", account |-> "acc1",
                                         mint |-> "m1", amount |-> 2,
                                         destination |-> ""] >>]
           \* u1 closes an empty token account and gets its 2000 lamports of
           \* rent
           TxClose ==
               [TxSol EXCEPT !.keys = <<"u1", "acc1">>, !.pre = <<20000, 2000>>,
                             !.post = <<17000, 0>>,
                             !.ops = << [type |-> "closeAccount", account |-> "acc1",
                                         mint |-> "", amount |-> 0,
                                         destination |-> "u1"] >>]
       IN chain \in { <<OnChain(shape, 1)>> :
                        shape \in {TxSol, TxTwoMints, TxSwap, TxSell, TxBurn, TxClose} }
    /\ ledger = <<>>
    /\ userLastSignatures = [u \in Users |-> NoSig]
    /\ isRunning = FALSE
    /\ mon = [pc |-> "off", users |-> <<>>, i |-> 0, totalProcessed |-> 0]
    /\ task = [id \in TaskIds |-> NoTask]
    /\ start = [pc |-> "idle", users |-> <<>>, i |-> 0]
    /\ sync = [pc |-> "idle", users |-> <<>>, i |-> 0]
    /\ add = [pc |-> "idle", user |-> ""]
    /\ calls = [ticks |-> 0, syncs |-> 0, adds |-> 0, removed |-> {}]

SpecPrice == InitPrice /\ [][NextClassify]_vars

\* C26: an event whose asset has no price to be had is emitted and stored with
\* the value 0: an event of a token when the price lookup gives none, an event
\* of the native coin when no price is cached.
C26_ZeroValueWithoutPrice ==
    LET \* no price is to be had for a token: no API key, the lookup fails or
        \* answers with an error, or the answer holds no price
        TokenPriceUnavailable ==
            \/ ~coinvera.apiKey
            \/ coinvera.rejected
            \/ coinvera.response.error # ""
            \/ coinvera.response.priceInUsd = ""
        \* no price of the native coin is cached
        SolPriceUnavailable == solPriceCache = <<>>
    IN
    \A i \in 1..Len(ledger) :
        /\ (ledger[i].mint # SOL_MINT /\ ledger[i].type # "close" /\ TokenPriceUnavailable)
              => ledger[i].value = 0
        /\ (ledger[i].mint = SOL_MINT /\ SolPriceUnavailable) => ledger[i].value = 0

(***************************************************************************)
(* The rate limiter of the price requests                                  *)
(***************************************************************************)
\* a limiter that leaves no time between two requests: the interval of one
\* built for more requests a second than the clock has ticks
NoInterval == Second \div (2 * Second)

\* this.minInterval = 1000 / maxRequestsPerSecond (Second is a multiple of
\* maxRequestsPerSecond)
minInterval == Second \div maxRequestsPerSecond

\* processQueue returning at once whenever the queue is empty, a worker
\* running or not
QueueEmpty(rl) == Len(rl.queue) = 0

\* the guard of processQueue: this.processing || this.queue.length === 0
Busy(rl) == rl.processing \/ Len(rl.queue) = 0

\* the while loop is left: this.processing = false
LoopExit(rl) ==
    [rl |-> [rl EXCEPT !.processing = FALSE],
     w |-> [pc |-> "returned", now |-> 0, wakeAt |-> 0, request |-> 0],
     started |-> <<>>]

\* the request is taken and called, with lastRequestTime the time read at the
\* top of the loop
DispatchAtLoopTime(rl, now, time) ==
    IF Len(rl.queue) = 0 THEN LoopExit(rl)
    ELSE [rl |-> [rl EXCEPT !.queue = Tail(@), !.lastRequestTime = now,
                            !.requestsInSecond = @ + 1],
          w |-> [pc |-> "request", now |-> now, wakeAt |-> 0, request |-> Head(rl.queue)],
          started |-> <<Head(rl.queue)>>]

\* queue.shift(), lastRequestTime = Date.now(), requestsInSecond++, request():
\* now is the time read at the top of the loop, time the time of the call
Dispatch(rl, now, time) ==
    IF Len(rl.queue) = 0 THEN LoopExit(rl)
    ELSE [rl |-> [rl EXCEPT !.queue = Tail(@), !.lastRequestTime = time,
                            !.requestsInSecond = @ + 1],
          w |-> [pc |-> "request", now |-> now, wakeAt |-> 0, request |-> Head(rl.queue)],
          started |-> <<Head(rl.queue)>>]

\* one turn of the while loop from its top, up to the next await
LoopTop(rl, now) ==
    IF Len(rl.queue) = 0 THEN LoopExit(rl)
    ELSE LET counted == IF now - rl.secondStart >= Second
                        THEN [rl EXCEPT !.requestsInSecond = 0, !.secondStart = now]
                        ELSE rl
             timeSinceLastRequest == now - counted.lastRequestTime
         IN IF counted.requestsInSecond >= maxRequestsPerSecond
            THEN [rl |-> counted,
                  w |-> [pc |-> "limit", now |-> now,
                         wakeAt |-> now + (Second - (now - counted.secondStart)),
                         request |-> 0],
                  started |-> <<>>]
            ELSE IF timeSinceLastRequest < minInterval
            THEN [rl |-> counted,
                  w |-> [pc |-> "spacing", now |-> now,
                         wakeAt |-> now + (minInterval - timeSinceLastRequest),
                         request |-> 0],
                  started |-> <<>>]
            ELSE Dispatch(counted, now, now)

\* await request() with a request that lets the error of its call through
AfterRequestRethrows(rl, now, ok) ==
    IF ok THEN LoopTop(rl, now)
    ELSE [rl |-> rl, w |-> [pc |-> "thrown", now |-> now, wakeAt |-> 0, request |-> 0],
          started |-> <<>>]

\* await request() is over: the request settles its own promise and never
\* throws, the loop goes on
AfterRequest(rl, now, ok) == LoopTop(rl, now)

\* the processQueue calls that have not returned
Active == {k \in 1..MaxRequests : workers[k].pc \in {"limit", "spacing", "request"}}

\* worker k has run up to its next await with result res
Ran(k, res, reqs) ==
    /\ rateLimiter' = res.rl
    /\ workers' = [workers EXCEPT ![k] = res.w]
    /\ requests' = [r \in 1..MaxRequests |->
                      IF Len(res.started) > 0 /\ res.started[1] = r
                      THEN [reqs[r] EXCEPT !.state = "running"]
                      ELSE reqs[r]]
    /\ dispatched' = dispatched \o
                       [i \in 1..Len(res.started) |->
                          [request |-> res.started[i], time |-> clock, worker |-> k]]

\* addRequest(requestFn): the request is queued and processQueue is called
AddRequest ==
    \E r \in 1..MaxRequests :
        /\ requests[r].state = "none"
        /\ \A q \in 1..(r - 1) : requests[q].state # "none"
        /\ LET rl == [rateLimiter EXCEPT !.queue = Append(@, r)]
               reqs == [requests EXCEPT ![r] =
                          [state |-> "pending",
                           during |-> IF Active = {} THEN "idle"
                                      ELSE workers[CHOOSE k \in Active : TRUE].pc]]
           IN IF Busy(rl)
              THEN /\ rateLimiter' = rl
                   /\ requests' = reqs
                   /\ UNCHANGED <<workers, dispatched>>
              ELSE Ran(r, LoopTop([rl EXCEPT !.processing = TRUE], clock), reqs)
        /\ UNCHANGED <<monitorVars, priceVars, clock>>

\* the timer of sleep() fires, at its time or later: after the wait for the
\* next second the loop starts over, after the wait for the interval the
\* request is called
Wake(k) ==
    /\ workers[k].pc \in {"limit", "spacing"}
    /\ clock >= workers[k].wakeAt
    /\ Ran(k, IF workers[k].pc = "limit" THEN LoopTop(rateLimiter, clock)
              ELSE Dispatch(rateLimiter, workers[k].now, clock), requests)
    /\ UNCHANGED <<monitorVars, priceVars, clock>>

\* the call of a request returns or throws: its promise is resolved or
\* rejected, the worker goes on
Complete(k, ok) ==
    /\ workers[k].pc = "request"
    /\ Ran(k, AfterRequest(rateLimiter, clock, ok),
           [requests EXCEPT ![workers[k].request].state =
              IF ok THEN "resolved" ELSE "rejected"])
    /\ UNCHANGED <<monitorVars, priceVars, clock>>

\* a clock tick
Tick ==
    /\ clock < StartTime + MaxClock
    /\ clock' = clock + 1
    /\ UNCHANGED <<monitorVars, priceVars, rateLimiter, workers, requests, dispatched>>

InitLimiter ==
    /\ PricesKnown
    /\ LimiterIdle
    /\ JobIdle
    /\ chain = <<>>
    /\ ledger = <<>>
    /\ userLastSignatures = [u \in Users |-> NoSig]
    /\ isRunning = FALSE
    /\ mon = [pc |-> "off", users |-> <<>>, i |-> 0, totalProcessed |-> 0]
    /\ task = [id \in TaskIds |-> NoTask]
    /\ start = [pc |-> "idle", users |-> <<>>, i |-> 0]
    /\ sync = [pc |-> "idle", users |-> <<>>, i |-> 0]
    /\ add = [pc |-> "idle", user |-> ""]
    /\ calls = [ticks |-> 0, syncs |-> 0, adds |-> 0, removed |-> {}]

NextLimiter ==
    \/ AddRequest
    \/ \E k \in 1..MaxRequests : Wake(k)
    \/ \E k \in 1..MaxRequests, ok \in BOOLEAN : Complete(k, ok)
    \/ Tick

SpecLimiter == InitLimiter /\ [][NextLimiter]_vars

\* C27: the limiter dispatches through a single worker, first in first out:
\* at no time has more than one processQueue call passed the guard without
\* having returned, also when addRequest is called during a request or a
\* sleep of the worker, and the requests are called in the order of their
\* addRequest calls.
C27_SingleWorkerFifo ==
    /\ Cardinality(Active) <= 1
    /\ \A i \in 1..Len(dispatched) : dispatched[i].request = i
    /\ rateLimiter.processing <=> Active # {}

\* three requests were called in order, the second added while the first was
\* in flight, the third added while the worker slept
C27_Witness ==
    /\ Len(dispatched) >= 3
    /\ requests[2].during = "request"
    /\ requests[3].during \in {"limit", "spacing"}

\* C28: any two consecutive dispatches are at least minInterval apart.
C28_MinInterval ==
    \A i \in 1..(Len(dispatched) - 1) :
        dispatched[i + 1].time - dispatched[i].time >= minInterval

\* a request added while the one before it was in flight, which returned at
\* once, is called exactly minInterval after it
C28_Witness ==
    \E i \in 1..(Len(dispatched) - 1) :
        /\ requests[i + 1].during = "request"
        /\ requests[i].state \in {"resolved", "rejected"}
        /\ dispatched[i + 1].time - dispatched[i].time = minInterval

\* C29: no window of one second, its end excluded, holds more than
\* maxRequestsPerSecond dispatches: of maxRequestsPerSecond + 1 dispatches in
\* a row the last is at least one second after the first.
C29_RollingWindow ==
    \A i \in 1..(Len(dispatched) - maxRequestsPerSecond) :
        dispatched[i + maxRequestsPerSecond].time - dispatched[i].time >= Second

\* a request is in flight that was called after the wait for the interval,
\* in a second that had elapsed since the counter was reset, and it is the
\* last of maxRequestsPerSecond + 1 dispatches
C29_Witness ==
    /\ Len(dispatched) > maxRequestsPerSecond
    /\ \E k \in Active :
          /\ workers[k].pc = "request"
          /\ workers[k].now < dispatched[Len(dispatched)].time
          /\ dispatched[Len(dispatched)].time - rateLimiter.secondStart >= Second

\* C30: the failure of a call is seen through the promise of its own request
\* only and does not stop the worker: every request added has a promise,
\* pending until its own call is over; a request waits in the queue only
\* while a worker is sleeping or awaiting a call; no worker ends by an error.
C30_FailureIsolated ==
    /\ \A r \in 1..MaxRequests :
          /\ requests[r].state = "pending" <=>
                \E i \in 1..Len(rateLimiter.queue) : rateLimiter.queue[i] = r
          /\ requests[r].state = "running" <=>
                \E k \in Active : workers[k].pc = "request" /\ workers[k].request = r
    /\ Len(rateLimiter.queue) > 0 => Active # {}
    /\ \A k \in 1..MaxRequests : workers[k].pc # "thrown"

\* after the call of a request has failed, a request that was waiting behind
\* it has been called and has returned
C30_Witness ==
    \E i \in 1..(Len(dispatched) - 1) :
        /\ requests[i].state = "rejected"
        /\ requests[i + 1].during = "request"
        /\ requests[i + 1].state = "resolved"

(***************************************************************************)
(* The monitor started and stopped, with a provider that always answers    *)
(***************************************************************************)
\* startMonitoring and stopMonitoring called at any moment, a start only
\* once the loop of the start before has returned
NextStop ==
    \/ TaskStep
    \/ MonWake \/ MonFindAgain \/ MonBatchDone \/ MonPause
    \/ StartAfterLoopExit \/ StartLoad \/ StartNext
    \/ StopCall

\* every timer fires and every awaited answer comes; nobody has to call
\* startMonitoring or stopMonitoring
FairStop ==
    /\ Init /\ [][NextStop]_vars
    /\ \A id \in TaskIds :
         /\ WF_vars(TickFetch(id)) /\ WF_vars(FullFetch(id)) /\ WF_vars(Filter(id))
         /\ WF_vars(Resolve(id)) /\ WF_vars(Pause(id))
         /\ \A j \in 1..ResolveBatchSize :
              WF_vars(CbExists(id, j)) /\ WF_vars(CbParse(id, j)) /\ WF_vars(CbSave(id, j))
    /\ WF_vars(MonWake) /\ WF_vars(MonFindAgain) /\ WF_vars(MonBatchDone) /\ WF_vars(MonPause)
    /\ WF_vars(StartLoad) /\ WF_vars(StartNext)

\* C31: the loop looks at the stop flag at the top of a tick only: a call of
\* a wallet in flight is never dropped before it returns, a tick under way
\* goes on through its batches to its sleep, the loop returns only when it
\* wakes from its sleep with the flag down, no tick begins with the flag
\* down; and when the flag stays down the loop has eventually returned and no
\* call is in flight any more.
C31_StopAtTickBoundary ==
    /\ [][/\ \A u \in Users :
               task[u].pc \notin {"none", "done"} => task'[u].pc # "none"
          /\ mon.pc \in {"batch", "pause"} => mon'.pc \in {"batch", "pause", "sleep"}
          /\ (mon.pc # "off" /\ mon'.pc = "off") => (mon.pc = "sleep" /\ ~isRunning)
          /\ (mon.pc # "find" /\ mon'.pc = "find") => isRunning']_vars
    /\ <>[](~isRunning)
          => <>[](mon.pc = "off" /\ \A id \in TaskIds : task[id].pc = "none")

\* the monitor is stopped while the second batch of wallets of a tick is
\* writing events
C31_Witness ==
    /\ ~isRunning
    /\ mon.pc = "batch" /\ mon.i > 0
    /\ \E u \in Members(UserBatch(mon)) : task[u].pc \notin {"none", "done"}
    /\ ledger # <<>>

(***************************************************************************)
(* The job and the loops of the monitor in time, on a wallet history that  *)
(* is empty: every page the provider returns is empty, so a call of a      *)
(* wallet returns without a write                                          *)
(***************************************************************************)
\* job.start(): a no-op when the job runs; else startMonitoring(), itself a
\* no-op when the monitor runs, else up to its first await
EnterStart ==
    IF job.isRunning
    THEN /\ job' = [job EXCEPT !.pc = "idle", !.wakeAt = 0]
         /\ UNCHANGED <<isRunning, start>>
    ELSE IF isRunning
    THEN /\ job' = [job EXCEPT !.isRunning = TRUE, !.pc = "idle", !.wakeAt = 0]
         /\ UNCHANGED <<isRunning, start>>
    ELSE /\ job' = [job EXCEPT !.isRunning = TRUE, !.pc = "start", !.wakeAt = 0]
         /\ isRunning' = TRUE
         /\ start' = [pc |-> "load", users |-> ActiveUsers, i |-> 1]

\* job.stop(): a no-op when the job does not run; else stopMonitoring()
EnterStop(pc, wakeAt) ==
    IF ~job.isRunning
    THEN /\ job' = [job EXCEPT !.pc = pc, !.wakeAt = wakeAt]
         /\ UNCHANGED isRunning
    ELSE /\ job' = [job EXCEPT !.isRunning = FALSE, !.pc = pc, !.wakeAt = wakeAt]
         /\ isRunning' = FALSE

\* startTransactionMonitorJob(), no other call of the job being in flight
JobStart ==
    /\ job.pc = "idle"
    /\ Len(loops) < MaxLoops
    /\ EnterStart
    /\ UNCHANGED <<priceVars, limiterVars, chain, ledger, userLastSignatures, mon, task,
                   sync, add, calls, loops>>

\* stopTransactionMonitorJob(), no other call of the job being in flight
JobStop ==
    /\ job.pc = "idle"
    /\ EnterStop("idle", job.wakeAt)
    /\ UNCHANGED <<priceVars, limiterVars, chain, ledger, userLastSignatures, mon, task,
                   start, sync, add, calls, loops>>

\* restartTransactionMonitorJob(): stop(), then the pause of 2000 ms begins
JobRestart ==
    /\ job.pc = "idle"
    /\ Len(loops) < MaxLoops
    /\ EnterStop("pause", clock + 2 * Second)
    /\ UNCHANGED <<priceVars, limiterVars, chain, ledger, userLastSignatures, mon, task,
                   start, sync, add, calls, loops>>

\* the pause of restart is over: start()
RestartPauseEnd ==
    /\ job.pc = "pause"
    /\ clock >= job.wakeAt
    /\ EnterStart
    /\ UNCHANGED <<priceVars, limiterVars, chain, ledger, userLastSignatures, mon, task,
                   sync, add, calls, loops>>

\* User.find and the lookups of loadLastSignatures have answered: the first
\* full sync is called, or the loop when no wallet lacks a cursor
StartLoaded ==
    /\ job.pc = "start" /\ start.pc = "load"
    /\ LET map == [u \in Users |->
                     IF Includes(start.users, u)
                     THEN loadLastSignatures(userLastSignatures, ledger, u)[u]
                     ELSE userLastSignatures[u]]
           need == usersNeedingFullSync(map, start.users)
       IN /\ userLastSignatures' = map
          /\ IF need = <<>>
             THEN /\ start' = [pc |-> "idle", users |-> <<>>, i |-> 0]
                  /\ job' = [job EXCEPT !.pc = "idle"]
                  \* monitorTransactions() runs up to its first await
                  /\ loops' = Append(loops, [pc |-> IF isRunning THEN "find" ELSE "returned",
                                                 i |-> 0, pending |-> {}, wakeAt |-> 0])
             ELSE /\ start' = [pc |-> "sync", users |-> need, i |-> 1]
                  /\ UNCHANGED <<job, loops>>
    /\ UNCHANGED <<priceVars, limiterVars, chain, ledger, isRunning, mon, task, sync, add,
                   calls>>

\* the full sync of a wallet of startMonitoring returns on an empty page; the
\* delay of 1000 ms begins
StartSynced ==
    /\ job.pc = "start" /\ start.pc = "sync"
    /\ getSignaturesForAddress(chain, start.users[start.i], FullSyncLimit, NoSig) = <<>>
    /\ start' = [start EXCEPT !.pc = "delay"]
    /\ job' = [job EXCEPT !.wakeAt = clock + Second]
    /\ UNCHANGED <<priceVars, limiterVars, chain, ledger, userLastSignatures, isRunning,
                   mon, task, sync, add, calls, loops>>

\* the delay after a full sync is over: the next full sync is called, or the
\* loop, and then startMonitoring and job.start() return
StartDelayEnd ==
    /\ job.pc = "start" /\ start.pc = "delay"
    /\ clock >= job.wakeAt
    /\ IF start.i < Len(start.users)
       THEN /\ start' = [start EXCEPT !.pc = "sync", !.i = @ + 1]
            /\ job' = [job EXCEPT !.wakeAt = 0]
            /\ loops' = loops
       ELSE /\ start' = [pc |-> "idle", users |-> <<>>, i |-> 0]
            /\ job' = [job EXCEPT !.pc = "idle", !.wakeAt = 0]
            \* monitorTransactions() runs up to its first await
            /\ loops' = Append(loops, [pc |-> IF isRunning THEN "find" ELSE "returned",
                                           i |-> 0, pending |-> {}, wakeAt |-> 0])
    /\ UNCHANGED <<priceVars, limiterVars, chain, ledger, userLastSignatures, isRunning,
                   mon, task, sync, add, calls>>

\* a step of loop k leaves its record as l
LoopStep(k, l) ==
    /\ loops' = [loops EXCEPT ![k] = l]
    /\ UNCHANGED <<priceVars, limiterVars, chain, ledger, userLastSignatures, isRunning,
                   mon, task, start, sync, add, calls, job>>

\* User.find answers in loop k: the calls of the first batch of wallets
LoopFind(k) ==
    /\ loops[k].pc = "find"
    /\ LoopStep(k, IF Len(ActiveUsers) = 0
                   THEN [loops[k] EXCEPT !.pc = "sleep", !.wakeAt = clock + 3 * Second]
                   ELSE [loops[k] EXCEPT
                           !.pc = "batch", !.i = 0,
                           !.pending = Members(UserBatch([users |-> ActiveUsers, i |-> 0]))])

\* a tick that is tried again after the sleep of a tick that went well
LoopFindThrowsShortSleep(k) ==
    /\ loops[k].pc = "find"
    /\ LoopStep(k, [loops[k] EXCEPT !.pc = "backoff", !.wakeAt = clock + 3 * Second])

\* User.find rejects in loop k: the catch of the loop, its timer of 10000 ms
LoopFindThrows(k) ==
    /\ loops[k].pc = "find"
    /\ LoopStep(k, [loops[k] EXCEPT !.pc = "backoff", !.wakeAt = clock + 10 * Second])

\* processUserTransactions of wallet u returns in loop k: its page is empty
LoopSyncReturns(k, u) ==
    /\ loops[k].pc = "batch"
    /\ u \in loops[k].pending
    /\ getSignaturesForAddress(chain, u, MonitorLimit, userLastSignatures[u]) = <<>>
    /\ LoopStep(k, [loops[k] EXCEPT !.pending = @ \ {u}])

\* await Promise.all(promises) is over in loop k: the pause of 100 ms (less
\* than a tick of the clock) before the next batch, or the sleep of 3000 ms
LoopBatchDone(k) ==
    /\ loops[k].pc = "batch"
    /\ loops[k].pending = {}
    /\ LoopStep(k, IF loops[k].i + UserBatchSize < Len(ActiveUsers)
                   THEN [loops[k] EXCEPT !.pc = "pause", !.wakeAt = clock + Second \div 10]
                   ELSE [loops[k] EXCEPT !.pc = "sleep", !.wakeAt = clock + 3 * Second])

\* the pause between two batches is over in loop k: the calls of the next batch
LoopPauseEnd(k) ==
    /\ loops[k].pc = "pause"
    /\ clock >= loops[k].wakeAt
    /\ LoopStep(k, [loops[k] EXCEPT
                      !.pc = "batch", !.i = @ + UserBatchSize, !.wakeAt = 0,
                      !.pending = Members(UserBatch([users |-> ActiveUsers,
                                                     i |-> loops[k].i + UserBatchSize]))])

\* the timer that ends a tick fires in loop k: while (this.isRunning)
LoopWake(k) ==
    /\ loops[k].pc \in {"sleep", "backoff"}
    /\ clock >= loops[k].wakeAt
    /\ LoopStep(k, [loops[k] EXCEPT !.pc = IF isRunning THEN "find" ELSE "returned",
                                    !.i = 0, !.wakeAt = 0])

\* a second passes, no timer being due
TimePasses ==
    /\ clock < StartTime + MaxRestartSeconds * Second
    /\ job.pc = "pause" \/ start.pc = "delay" => clock < job.wakeAt
    /\ \A k \in 1..Len(loops) :
          loops[k].pc \in {"pause", "sleep", "backoff"} => clock < loops[k].wakeAt
    /\ clock' = clock + Second
    /\ UNCHANGED <<monitorVars, priceVars, rateLimiter, workers, requests, dispatched>>

NextRestart ==
    \/ JobStart \/ JobStop \/ JobRestart \/ RestartPauseEnd
    \/ StartLoaded \/ StartSynced \/ StartDelayEnd
    \/ \E k \in 1..Len(loops) : LoopFind(k)
    \/ \E k \in 1..Len(loops) : LoopFindThrows(k)
    \/ \E k \in 1..Len(loops), u \in Users : LoopSyncReturns(k, u)
    \/ \E k \in 1..Len(loops) : LoopBatchDone(k)
    \/ \E k \in 1..Len(loops) : LoopPauseEnd(k)
    \/ \E k \in 1..Len(loops) : LoopWake(k)
    \/ TimePasses

\* nothing has been called yet and no wallet has a history: the initial state
\* is that of the limiter's specification
SpecRestart == InitLimiter /\ [][NextRestart]_vars

\* C32: an error inside a tick does not end the loop: the loop that catches
\* it sleeps 10 s, where the sleep that ends a tick gone well is of 3 s, does
\* not wake before those 10 s are over, and then begins the next tick when
\* the monitor still runs (and returns when it does not).
C32_BackoffThenNextTick ==
    [][\A k \in 1..Len(loops) :
          /\ (loops[k].pc = "find" /\ loops'[k].pc \notin {"find", "batch", "sleep"}) =>
                /\ loops'[k].pc = "backoff"
                /\ loops'[k].wakeAt = clock + 10 * Second
          /\ (loops[k].pc # "sleep" /\ loops'[k].pc = "sleep") =>
                loops'[k].wakeAt = clock + 3 * Second
          /\ (loops[k].pc = "backoff" /\ loops'[k].pc # "backoff") =>
                /\ clock >= loops[k].wakeAt
                /\ loops'[k].pc = IF isRunning THEN "find" ELSE "returned"]_vars

\* the 10 s after an error are over in a loop of a monitor that still runs
C32_Witness ==
    \E k \in 1..Len(loops) :
        /\ loops[k].pc = "backoff"
        /\ clock = loops[k].wakeAt
        /\ isRunning

\* C36: at most one loop is inside a tick at any time, whatever the calls of
\* start, stop and restart.
C36_OneLoopTicks ==
    Cardinality({k \in 1..Len(loops) : loops[k].pc \in {"find", "batch", "pause"}}) <= 1

\* C33: within the loop at most UserBatchSize calls of processUserTransactions
\* are in flight at any time, all of them for wallets of the batch under
\* way, and the calls of the next batch are made only when every call of the
\* batch before has returned.
C33_BoundedBatch ==
    /\ [](LET inFlight == {u \in Users : task[u].pc \notin {"none", "done", "rejected"}}
          IN /\ Cardinality(inFlight) <= UserBatchSize
             /\ inFlight # {} => /\ mon.pc = "batch"
                                 /\ inFlight \subseteq Members(UserBatch(mon)))
    /\ [][\A u \in Users :
             (task[u].pc \in {"none", "done", "rejected"} /\ task'[u].pc = "fetch") =>
                 /\ mon.pc \in {"find", "pause"}
                 /\ \A v \in Users : task[v].pc \in {"none", "done", "rejected"}]_vars

\* the two wallets of the first batch are in flight together while the third
\* wallet waits for its batch
C33_Witness ==
    /\ mon.pc = "batch"
    /\ mon.i = 0
    /\ Len(mon.users) > UserBatchSize
    /\ Cardinality({u \in Users : task[u].pc \notin {"none", "done", "rejected"}}) = UserBatchSize
    /\ \E u \in Users : task[u].pc = "none"

C35_TokenCounterparty ==
    \A i \in 1..Len(ledger) :
        LET ev == ledger[i]
            tx == chain[ev.signature]
            balances == tx.preTok \o tx.postTok
            others == {balances[k].owner : k \in {k \in 1..Len(balances) :
                          /\ balances[k].mint = ev.mint
                          /\ balances[k].owner # ev.userId}}
        IN (ev.type \in {"send", "receive"} /\ ev.mint # SOL_MINT /\ others # {}) =>
               (ev.from \in others \/ ev.to \in others)

\* C39: a stored send has the wallet as from, a stored receive has the
\* wallet as to.
C39_TypeMatchesParties ==
    \A i \in 1..Len(ledger) :
        /\ ledger[i].type = "send" => ledger[i].from = ledger[i].userId
        /\ ledger[i].type = "receive" => ledger[i].to = ledger[i].userId

(***************************************************************************)
(* The rate limiter with its queue cleared from outside                    *)
(***************************************************************************)
\* clearRateLimiterQueue(): the queue of the limiter is replaced by an empty
\* array; the promises of the requests that waited in it are left as they are
ClearQueue ==
    /\ rateLimiter' = [rateLimiter EXCEPT !.queue = <<>>]
    /\ UNCHANGED <<monitorVars, priceVars, clock, workers, requests, dispatched>>

SpecClear == InitLimiter /\ [][NextLimiter \/ ClearQueue]_vars

\* C37: no request is lost: a request whose promise is pending and whose call
\* has not begun waits in the queue, from where alone a worker can take it,
\* and a queue that is not empty has a worker.
C37_NoRequestLost ==
    /\ \A r \in 1..MaxRequests :
          requests[r].state = "pending" =>
              \E i \in 1..Len(rateLimiter.queue) : rateLimiter.queue[i] = r
    /\ Len(rateLimiter.queue) > 0 => rateLimiter.processing

\* C38: a wallet removed and not added again, when no call that began before
\* the removal is still in flight, is left alone by the loop: no call of
\* processUserTransactions begins for it, it gets no cursor and no event of
\* it is stored; and the removal itself leaves the cursors of the other
\* wallets and every stored event as they were.
C38_RemovedWalletLeftAlone ==
    /\ [][\A u \in calls.removed :
             (/\ \A id \in TaskIds : task[id].pc \in {"none", "done"}
              /\ start.pc = "idle" /\ sync.pc = "idle" /\ add.pc = "idle") =>
                 /\ task'[u].pc # "fetch"
                 /\ userLastSignatures[u] = NoSig => userLastSignatures'[u] = NoSig
                 /\ \A i \in 1..Len(ledger') : i > Len(ledger) => ledger'[i].userId # u]_vars
    /\ [][\A u \in calls'.removed \ calls.removed :
             /\ ledger' = ledger
             /\ \A v \in Users \ {u} : userLastSignatures'[v] = userLastSignatures[v]]_vars
====
